---- MODULE Spec2Model ----
(***************************************************************************)
(* Model of the squashfs extraction library (package squashfs):            *)
(*   - SquashFs.Walk / walk          (libcfsops.go, the tree walker)       *)
(*   - Extractor.Extract / extract   (extract.go, the extraction engine)   *)
(*                                                                         *)
(* The archive reader (libsquashfs behind cgo) is the environment: what a  *)
(* lookup or a directory listing answers is drawn when the walker asks,    *)
(* and recorded in arch / listing.  The target file system is a function   *)
(* from paths to nodes.  Paths are sequences of names, <<>> being "/"      *)
(* in the archive and Extractor.Dir in the target.                         *)
(***************************************************************************)
EXTENDS Integers, Sequences, FiniteSets, TLC

VARIABLES
    pc,         \* position of the running call: "start", "root", "walk", "drain",
                \* "done" in Walk and Extract; "entry", "visited" for one extract call
    visitor,    \* which WalkFunc Walk was given: "any" or "extract"
    root,       \* the root argument of Walk (Extractor.Path)
    stack,      \* the walk() activations: <<[path, names]>>, names = children left
    visits,     \* every walkFn call so far: [path, isdir, perr, ret]
    result,     \* what Walk returned (walkErr in Extract)
    arch,       \* archive entries looked up so far: path -> FileInfo
    listing,    \* directory listings read so far: path -> names in reader order
    budget,     \* how many more archive entries the reader may still produce
    opts,       \* Extractor.{WhiteOuts, Owners, Perms, Devs, Sockets}
    priv,       \* TRUE when the process is root (DAC checks never fail)
    tgt,        \* the target file system: path -> node
    before,     \* the target file system when the call began
    cleanups,   \* Extractor.cleanups: <<[path, mode]>>
    ran,        \* cleanups executed by the running Extract: <<[idx, path, mode, err]>>
    calls,      \* FsOps calls and creating system calls so far:
                \* <<[op, site, path, mode, uid, err]>>
    faults,     \* how many more system calls the environment may fail
    cleanErr,   \* Extract's local cleanErr
    ret,        \* what Extract returned
    ops,        \* Extractor.Ops: "nil", "GoFsOps", "FakerootOps" or "LibcFsOps"
    fakeroot,   \* TRUE when FAKEROOTKEY is set in the environment
    run,        \* which call of Extract on this target is running: 1 or 2
    file,       \* File.Filename of the File a method is called on
    got,        \* what that method returned: [err, info]; for Seek the call as well
    cmd,        \* the command line FakerootOps.Mknod ran last, <<>> when none
    fp          \* the File that Seek is called on: [Pos, Size]

vars == <<pc, visitor, root, stack, visits, result, arch, listing, budget,
          opts, priv, tgt, before, cleanups, ran, calls, faults, cleanErr, ret, ops,
          fakeroot, run, file, got, cmd, fp>>

walkVars == <<stack, visits, result, arch, listing, budget>>
engineVars == <<tgt, cleanups, calls, faults>>

(***************************************************************************)
(* Bounds.                                                                 *)
(***************************************************************************)
\* archive entries below the walk root that the reader produces in one Walk
MaxEntries == 4
\* the largest size of a File that Seek is called on
MaxSize == 3
\* the width of the integers Seek computes with (int64 in the code)
OffsetBits == 4
\* archive entries below the root that the reader produces in one Extract
MaxExtracted == 2
\* system calls the environment fails in one Extract
MaxFaults == 1
\* symbolic links followed before a lookup gives up (ELOOP)
MaxLinks == 2

(***************************************************************************)
(* Program constants.                                                      *)
(***************************************************************************)
DefaultFilePerm == 420  \* 0644
DefaultDirPerm == 493   \* 0755
OpenDirPerm == 511      \* 0777
OwnerRW == 384          \* 0600, the mask of extract's deferred-repair test
OwnerW == 128           \* 0200, what access(W_OK) looks at for the owner

Nil == "nil"
SkipDir == "SkipDir"
ErrNotExist == "ErrNotExist"

(***************************************************************************)
(* Paths.                                                                  *)
(***************************************************************************)
Names == {"a", "b"}
Root == <<>>
Join(p, n) == Append(p, n)
Dir(p) == IF p = <<>> THEN <<>> ELSE SubSeq(p, 1, Len(p) - 1)
Base(p) == IF p = <<>> THEN "/" ELSE p[Len(p)]
\* q lies strictly below p
Below(p, q) == Len(q) > Len(p) /\ SubSeq(q, 1, Len(p)) = p
BelowEq(p, q) == q = p \/ Below(p, q)

\* duplicate-free sequences over S of length at most n (a directory's listing)
RECURSIVE Listings(_, _)
Listings(S, n) ==
    IF n = 0 \/ S = {} THEN {<<>>}
    ELSE {<<>>} \cup UNION {{<<x>> \o l : l \in Listings(S \ {x}, n - 1)} : x \in S}

(***************************************************************************)
(* Entry model: FileInfo as getFileInfo builds it from an inode.           *)
(***************************************************************************)
InodeTypes == {"DIR", "FILE", "SLINK", "BDEV", "CDEV", "FIFO", "SOCKET",
               "EXT_DIR", "EXT_FILE", "EXT_SLINK", "EXT_BDEV", "EXT_CDEV",
               "EXT_FIFO", "EXT_SOCKET"}

\* the os.FileMode type bits getFileInfo sets for an inode type
TypeBits(itype) ==
    CASE itype \in {"DIR", "EXT_DIR"}       -> {"ModeDir"}
      [] itype \in {"FILE", "EXT_FILE"}     -> {}
      [] itype = "SLINK"                    -> {"ModeSymlink"}
      [] itype = "EXT_SLINK"                -> {}
      [] itype \in {"BDEV", "EXT_BDEV"}     -> {"ModeDevice"}
      [] itype \in {"CDEV", "EXT_CDEV"}     -> {"ModeCharDevice"}
      [] itype \in {"FIFO", "EXT_FIFO"}     -> {"ModeNamedPipe"}
      [] itype \in {"SOCKET", "EXT_SOCKET"} -> {"ModeSocket"}

\* inode.symlinkTarget(): the stored target for both symlink inode types, "" otherwise
symlinkTarget(ino) ==
    IF ino.itype \in {"SLINK", "EXT_SLINK"} THEN ino.link ELSE <<>>

\* an inode: [itype, perm, devno, uid, size, link, stream]
getFileInfo(p, ino) ==
    [Filename |-> p,
     bits |-> TypeBits(ino.itype),
     perm |-> ino.perm,
     FSize |-> IF ino.itype \in {"BDEV", "CDEV", "EXT_BDEV", "EXT_CDEV",
                                 "EXT_FIFO", "EXT_SOCKET", "FIFO", "SOCKET"}
               THEN 0 ELSE ino.size,
     SymlinkTarget |-> symlinkTarget(ino),
     Rdev |-> IF ino.itype \in {"BDEV", "CDEV", "EXT_BDEV", "EXT_CDEV"}
              THEN ino.devno ELSE 0,
     Uid |-> ino.uid,
     stream |-> ino.stream]

IsDir(info) == "ModeDir" \in info.bits

\* user ids: the superuser's, and the one of every other process and owner
RootUid == "root"
MyUid == "user"

\* FileInfo{Filename: root} / FileInfo{}: what the walker hands over with an error
EmptyInfo(p) ==
    [Filename |-> p, bits |-> {}, perm |-> 0, FSize |-> 0, SymlinkTarget |-> <<>>,
     Rdev |-> 0, Uid |-> RootUid, stream |-> 0]

(***************************************************************************)
(* The archive reader's answers.                                           *)
(***************************************************************************)
\* a File before it is opened
NoFile == [Pos |-> 0, Size |-> 0]
\* FileInfo{} with a nil error
NoAnswer == [err |-> Nil, info |-> EmptyInfo(<<>>)]

Inode(t, perm, devno, size, link, stream) ==
    [itype |-> t, perm |-> perm, devno |-> devno, uid |-> MyUid, size |-> size,
     link |-> link, stream |-> stream]

\* permission bits a directory inode may record: 0755, 0500, 0100
DirPerms == {493, 320, 64}

\* the inodes a lookup may answer with
DirInodes == {Inode("DIR", m, 0, 0, <<>>, 0) : m \in DirPerms}
FileInodes == {Inode("FILE", 420, 0, 1, <<>>, 1)}
WhiteOutInodes == {Inode("CDEV", 420, 0, 0, <<>>, 0)}
Inodes == DirInodes \cup FileInodes \cup WhiteOutInodes

\* sqfs.Lstat(name): OpenFile fails with os.ErrNotExist, or getFileInfo of the inode
LookupAnswers(p, inodes) ==
    {[err |-> ErrNotExist, info |-> EmptyInfo(<<>>)]}
    \cup {[err |-> Nil, info |-> getFileInfo(p, ino)] : ino \in inodes}

\* File.Readdirnames(0): the names in reader order, or an error with the names
\* read before it
ReaddirFailed == "ReaddirFailed"
ReaddirAnswers(n) ==
    {[err |-> e, names |-> l] : e \in {Nil, ReaddirFailed}, l \in Listings(Names, n)}

(***************************************************************************)
(* walk: the control flow around the walkFn calls.                         *)
(***************************************************************************)
Finished(r) == [stack |-> <<>>, done |-> TRUE, result |-> r]
Running(stk) == [stack |-> stk, done |-> FALSE, result |-> Nil]
Pop(stk) == SubSeq(stk, 1, Len(stk) - 1)
Top(stk) == stk[Len(stk)]

\* mutant: Walk hands back whatever walk returned
WalkResultRaw(r) == r
\* Walk's mapping of what walk (or the root walkFn call) returned
WalkResult(r) == IF r = SkipDir THEN Nil ELSE r

\* mutant: the loop returns every non-nil value, SkipDir of a directory included
LoopReturnsNoSkip(r, childIsDir) == r # Nil
\* mutant: the loop goes on after SkipDir whatever the child is
LoopReturnsErrors(r, childIsDir) == r # Nil /\ r # SkipDir
\* the test of walk's loop on what walk(child) returned: TRUE when the loop returns it
LoopReturns(r, childIsDir) == r # Nil /\ (~childIsDir \/ r # SkipDir)
\* mutant: the loop goes on whatever walkFn returned for such a child
LoopGoesOnAfterLookupError(r) == FALSE
\* the test of walk's loop on what walkFn returned for a child whose lookup failed
LoopReturnsOnLookupError(r) == r # Nil /\ r # SkipDir

RECURSIVE Unwind(_, _, _), NextChild(_)
\* the activation on top of stk goes on with its loop; an exhausted loop returns nil
NextChild(stk) ==
    IF stk = <<>> THEN Finished(WalkResult(Nil))
    ELSE IF Top(stk).names = <<>> THEN Unwind(Pop(stk), Nil, FALSE)
    ELSE Running(stk)
\* the activation on top of stk gets r back for a child; returns is the loop's test
Unwind(stk, r, returns) ==
    IF stk = <<>> THEN Finished(WalkResult(r))
    ELSE IF returns THEN Unwind(Pop(stk), r, LoopReturns(r, TRUE))
    ELSE NextChild(stk)

\* walk(path, info) for a directory once walkFn returned err1 for it
AfterDirVisit(stk, p, rd, err1) ==
    IF rd.err # Nil \/ err1 # Nil
    THEN Unwind(stk, err1, LoopReturns(err1, TRUE))
    ELSE NextChild(Append(stk, [path |-> p, names |-> rd.names]))
\* walk(path, info) for a non-directory once walkFn returned r for it
AfterFileVisit(stk, r) == Unwind(stk, r, LoopReturns(r, FALSE))
\* mutant: SkipDir for a child whose lookup failed ends the directory
AfterFailedLookupStop(stk, r) == Unwind(stk, r, r # Nil)
\* the loop once walkFn returned r for a child whose lookup failed
AfterFailedLookup(stk, r) == Unwind(stk, r, LoopReturnsOnLookupError(r))

(***************************************************************************)
(* The target file system (the os / syscall / unix packages).              *)
(* A node is [t, mode, uid, size, rdev, link]; fs maps the paths that      *)
(* exist to their nodes, and every path of fs but Root has its parent in   *)
(* fs as a "dir" node.  The process owns every node it can reach, so the   *)
(* owner bits decide access unless it is root; every mode of the model     *)
(* carries the owner's search bit.                                         *)
(***************************************************************************)
\* K of the value v: what follows a call uses its result under one name
With(v, K(_)) == K(v)

Node(t, mode, uid, size, rdev, link) ==
    [t |-> t, mode |-> mode, uid |-> uid, size |-> size, rdev |-> rdev, link |-> link]
NoNode == Node("none", 0, RootUid, 0, 0, <<>>)
ELoop == <<"ELOOP">>

\* mode & 0200 # 0
HasOwnerW(mode) == (mode \div OwnerW) % 2 = 1
\* mode & 0600 # 0
HasOwnerRW(mode) == (mode \div OwnerW) % 4 # 0
\* mode | 0600
OrOwnerRW(mode) == mode - ((mode \div OwnerW) % 4) * OwnerW + OwnerRW

\* the node a path names once symbolic links in its last component are followed
RECURSIVE Follow(_, _, _)
Follow(fs, p, fuel) ==
    IF p \in DOMAIN fs /\ fs[p].t = "lnk"
    THEN IF fuel = 0 THEN ELoop ELSE Follow(fs, fs[p].link, fuel - 1)
    ELSE p
\* lstat-style resolution: links in the directory part are followed, the last name is not
RECURSIVE Real(_, _)
Real(fs, p) ==
    IF p = <<>> THEN <<>> ELSE Join(Follow(fs, Real(fs, Dir(p)), MaxLinks), Base(p))
\* stat-style resolution
RealFollow(fs, p) == Follow(fs, Real(fs, p), MaxLinks)

\* why a path cannot be looked up, Nil when its directory part is a directory
LookupErr(fs, rp) ==
    IF rp = <<>> THEN Nil
    ELSE IF rp[1] = ELoop[1] THEN "ELOOP"
    ELSE IF Dir(rp) \notin DOMAIN fs THEN "ENOENT"
    ELSE IF fs[Dir(rp)].t # "dir" THEN "ENOTDIR"
    ELSE Nil

\* os.Lstat / os.Stat: [err, node]
LstatAt(fs, rp) ==
    With(LookupErr(fs, rp), LAMBDA err :
      IF err # Nil THEN [err |-> err, node |-> NoNode]
      ELSE IF rp \notin DOMAIN fs THEN [err |-> "ENOENT", node |-> NoNode]
      ELSE [err |-> Nil, node |-> fs[rp]])
Lstat(fs, p) == LstatAt(fs, Real(fs, p))
Stat(fs, p) == LstatAt(fs, RealFollow(fs, p))
\* os.IsNotExist(err)
IsNotExist(err) == err = "ENOENT"

\* may the process add or remove names in directory d (d is a "dir" node of fs)
MayWrite(fs, isroot, d) == isroot \/ HasOwnerW(fs[d].mode)

\* unix.Access(dir, W_OK): Nil or an error
Access(fs, isroot, p) ==
    With(Stat(fs, p), LAMBDA st :
      IF st.err # Nil THEN st.err
      ELSE IF isroot \/ HasOwnerW(st.node.mode) THEN Nil
      ELSE "EACCES")

\* creating a node at p: mkdir, symlink, mkfifo, mknod, bind; [fs, err]
Create(fs, isroot, p, node) ==
    With(Real(fs, p), LAMBDA rp :
    With(LookupErr(fs, rp), LAMBDA err :
      IF err # Nil THEN [fs |-> fs, err |-> err]
      ELSE IF rp \in DOMAIN fs THEN [fs |-> fs, err |-> "EEXIST"]
      ELSE IF ~MayWrite(fs, isroot, Dir(rp)) THEN [fs |-> fs, err |-> "EACCES"]
      ELSE [fs |-> (rp :> node) @@ fs, err |-> Nil]))

\* os.Chmod: follows symbolic links
Chmod(fs, p, mode) ==
    With(Stat(fs, p), LAMBDA st :
      IF st.err # Nil THEN [fs |-> fs, err |-> st.err]
      ELSE [fs |-> [fs EXCEPT ![RealFollow(fs, p)].mode = mode], err |-> Nil])

\* os.Chown: follows symbolic links; only root may give a file away
Chown(fs, isroot, myuid, p, uid) ==
    With(Stat(fs, p), LAMBDA st :
      IF st.err # Nil THEN [fs |-> fs, err |-> st.err]
      ELSE IF ~isroot /\ uid # myuid THEN [fs |-> fs, err |-> "EPERM"]
      ELSE [fs |-> [fs EXCEPT ![RealFollow(fs, p)].uid = uid], err |-> Nil])

Restrict(fs, S) == [q \in S |-> fs[q]]

\* mutant: an unlink that follows a symbolic link at the path
RemoveReferent(fs, isroot, p) ==
    With(RealFollow(fs, p), LAMBDA rp :
    With(LstatAt(fs, rp), LAMBDA st :
      IF st.err # Nil THEN [fs |-> fs, err |-> st.err]
      ELSE IF ~MayWrite(fs, isroot, Dir(rp)) THEN [fs |-> fs, err |-> "EACCES"]
      ELSE [fs |-> Restrict(fs, DOMAIN fs \ {rp}), err |-> Nil]))
\* os.Remove of a non-directory (unlink): the name itself, never what a link points to
Remove(fs, isroot, p) ==
    With(Real(fs, p), LAMBDA rp :
    With(LstatAt(fs, rp), LAMBDA st :
      IF st.err # Nil THEN [fs |-> fs, err |-> st.err]
      ELSE IF ~MayWrite(fs, isroot, Dir(rp)) THEN [fs |-> fs, err |-> "EACCES"]
      ELSE IF \E q \in DOMAIN fs : Below(rp, q) THEN [fs |-> fs, err |-> "ENOTEMPTY"]
      ELSE [fs |-> Restrict(fs, DOMAIN fs \ {rp}), err |-> Nil]))

\* mutant: os.Remove where the code calls os.RemoveAll
RemoveOnly(fs, isroot, p) == Remove(fs, isroot, p)
\* os.RemoveAll: the subtree at p; a path that does not exist is no error
RemoveAll(fs, isroot, p) ==
    With(Real(fs, p), LAMBDA rp :
    With(LstatAt(fs, rp), LAMBDA st :
    With({q \in DOMAIN fs : BelowEq(rp, q)}, LAMBDA sub :
      IF IsNotExist(st.err) THEN [fs |-> fs, err |-> Nil]
      ELSE IF st.err # Nil THEN [fs |-> fs, err |-> st.err]
      ELSE IF rp = <<>> THEN [fs |-> fs, err |-> "EBUSY"]
      ELSE IF \E q \in sub : ~MayWrite(fs, isroot, Dir(q))
      THEN [fs |-> fs, err |-> "EACCES"]
      ELSE [fs |-> Restrict(fs, DOMAIN fs \ sub), err |-> Nil])))

\* PathExists: os.Stat, and every error but "does not exist" counts as existing
PathExists(fs, p) == ~IsNotExist(Stat(fs, p).err)

(***************************************************************************)
(* The extraction engine.  The operators below work on the engine state    *)
(*   S = [fs, cleanups, calls, hit, seen]                                  *)
(* in the context                                                          *)
(*   E = [opts, isroot, myuid, ops, F]                                     *)
(* where F is the set of call sites the environment fails during this      *)
(* walkFn call, S.seen the call sites reached and S.hit those of them that *)
(* failed.  Each returns [s, err]: the state after it, the error returned. *)
(***************************************************************************)
EIO == "EIO"
Sites == {"mkdir", "symlink", "mkfifo", "listen", "mknod", "open", "copy",
          "chown", "chmod", "stat", "chmodOpen", "access", "chmodBack",
          "lstat", "rmall", "remove", "whiteout", "fixBack"}

Hit(S, site) == [S EXCEPT !.hit = @ \cup {site}, !.seen = @ \cup {site}]
Logged(S, op, site, p, mode, uid, err) ==
    [S EXCEPT !.calls = Append(@, [op |-> op, site |-> site, path |-> p,
                                   mode |-> mode, uid |-> uid, err |-> err])]

\* a system call at a call site: r = [fs, err] is what it does when nothing outside fails
Sys(E, S, site, r) ==
    IF site \in E.F THEN [s |-> Hit(S, site), err |-> EIO]
    ELSE [s |-> [S EXCEPT !.fs = r.fs, !.seen = @ \cup {site}], err |-> r.err]

\* the system call that returned r, entered in the log
Traced(r, op, p) == [s |-> Logged(r.s, op, op, p, 0, RootUid, r.err), err |-> r.err]

\* how a provider carries out chmod, chown or mknod: a system call of the Go
\* runtime, a command it runs, or a call of the symbol resolved from the library
Via(o, op) ==
    CASE o = "GoFsOps" -> "syscall"
      [] o = "FakerootOps" -> "exec"
      [] o = "LibcFsOps" -> IF op = "mknod" THEN "symbol" ELSE "syscall"

\* FsOps.Chmod: GoFsOps and LibcFsOps call os.Chmod, FakerootOps runs chmod(1)
OpsChmod(E, S, site, p, mode) ==
    With(Sys(E, S, site, Chmod(S.fs, p, mode)),
         LAMBDA r : [s |-> Logged(r.s, "chmod", site, p, mode, RootUid, r.err),
                     err |-> r.err])

\* FsOps.Chown: GoFsOps and LibcFsOps call os.Chown, FakerootOps runs
\* chown --no-dereference
Lchown(fs, isroot, myuid, p, uid) ==
    LET rp == Real(fs, p) IN
    LET st == LstatAt(fs, rp) IN
    IF st.err # Nil THEN [fs |-> fs, err |-> st.err]
    ELSE IF ~isroot /\ uid # myuid THEN [fs |-> fs, err |-> "EPERM"]
    ELSE [fs |-> [fs EXCEPT ![rp].uid = uid], err |-> Nil]
OpsChown(E, S, site, p, uid) ==
    With(Sys(E, S, site,
             IF E.ops = "FakerootOps"
             THEN Lchown(S.fs, E.isroot, E.myuid, p, uid)
             ELSE Chown(S.fs, E.isroot, E.myuid, p, uid)),
         LAMBDA r : [s |-> Logged(r.s, "chown", site, p, 0, uid, r.err), err |-> r.err])

\* mutant: the two numbers the other way round
MajMinSwapped(info) ==
    IF info.bits \cap {"ModeCharDevice", "ModeDevice"} # {}
    THEN <<info.Rdev % 256, info.Rdev \div 256>>
    ELSE <<>>

\* FsOps.Mknod: GoFsOps and LibcFsOps pass DefaultFilePerm as the whole mode (no
\* S_IFCHR / S_IFBLK bit, which mknod(2) takes as a regular file); FakerootOps
\* runs mknod(1) with the type letter and major / minor
MajMin(info) ==
    IF info.bits \cap {"ModeCharDevice", "ModeDevice"} # {}
    THEN <<info.Rdev \div 256, info.Rdev % 256>>
    ELSE <<>>
\* FakerootOps.Mknod's dtype: c, b or p; "" where it returns an error instead
Dtype(info) ==
    IF "ModeCharDevice" \in info.bits THEN "c"
    ELSE IF "ModeDevice" \in info.bits THEN "b"
    ELSE IF "ModeNamedPipe" \in info.bits THEN "p"
    ELSE ""
\* the command line FakerootOps.Mknod hands to exec.Command, <<>> when it runs none
MknodCmd(p, info) ==
    IF Dtype(info) = "" THEN <<>>
    ELSE <<"mknod", info.perm, p, Dtype(info)>> \o MajMin(info)
\* the device number mknod(1) makes of major and minor
MakeDev(mm) == IF mm = <<>> THEN 0 ELSE (mm[1] * 256) + mm[2]
MknodNode(E, info) ==
    IF E.ops = "FakerootOps"
    THEN Node(IF "ModeCharDevice" \in info.bits THEN "cdev"
              ELSE IF "ModeDevice" \in info.bits THEN "bdev" ELSE "fifo",
              info.perm, E.myuid, 0, MakeDev(MajMin(info)), <<>>)
    ELSE Node("reg", DefaultFilePerm, E.myuid, 0, 0, <<>>)
OpsMknod(E, S, site, p, info) ==
    With(Sys(E, S, site,
             IF E.ops = "FakerootOps" /\
                info.bits \cap {"ModeCharDevice", "ModeDevice", "ModeNamedPipe"} = {}
             THEN [fs |-> S.fs, err |-> "NotCharBlockFifo"]
             ELSE Create(S.fs, E.isroot, p, MknodNode(E, info))),
         LAMBDA r : [s |-> Logged(r.s, "mknod", site, p, 0, RootUid, r.err),
                     err |-> r.err])

\* mutant: no entry is classified as a white-out, so the type dispatch sees it
getWhiteOutNever(info) == FALSE
\* getWhiteOut(info) # ""
getWhiteOut(info) == "ModeCharDevice" \in info.bits /\ info.Rdev = 0

\* applyWhiteOut
applyWhiteOut(E, S, p) ==
    IF PathExists(S.fs, p)
    THEN Sys(E, S, "whiteout", RemoveAll(S.fs, E.isroot, p))
    ELSE [s |-> S, err |-> Nil]

\* extractDir: os.Mkdir, where "exists" is not an error
extractDir(E, S, p, info) ==
    With(Sys(E, S, "mkdir",
             Create(S.fs, E.isroot, p, Node("dir", DefaultDirPerm, E.myuid, 0, 0, <<>>))),
         LAMBDA r : IF r.err = "EEXIST" THEN [s |-> r.s, err |-> Nil] ELSE r)

\* the local cleanup prepWrite returns: a no-op, or setBack (chmod dir back to mode)
NoCleanup == [set |-> FALSE, dir |-> <<>>, mode |-> 0]
\* mutant: setBack sets the mode prepWrite granted
SetBackOpen(dir, mode) == [set |-> TRUE, dir |-> dir, mode |-> OpenDirPerm]
SetBack(dir, mode) == [set |-> TRUE, dir |-> dir, mode |-> mode]
\* mutant: the cleanup prepWrite returned is dropped
RunCleanupNever(E, S, c) == [s |-> S, err |-> Nil]
RunCleanup(E, S, c) ==
    IF c.set THEN OpsChmod(E, S, "chmodBack", c.dir, c.mode) ELSE [s |-> S, err |-> Nil]

\* what prepWrite returns: [s, err, cleanup]
Prepared(r, cleanup) == [s |-> r.s, err |-> r.err, cleanup |-> cleanup]
Failed(S, err) == [s |-> S, err |-> err, cleanup |-> NoCleanup]

\* mutant: what the target path holds is left in place
prepTargetKeep(E, S, p, info, cleanup) == [s |-> S, err |-> Nil, cleanup |-> cleanup]
\* prepWrite, its last part: the target path itself (os.Lstat, then the removal)
prepTarget(E, S, p, info, cleanup) ==
    With(Lstat(S.fs, p), LAMBDA pathFinfo :
    With(Sys(E, S, "lstat", [fs |-> S.fs, err |-> pathFinfo.err]), LAMBDA l :
      IF IsNotExist(l.err) THEN [s |-> l.s, err |-> Nil, cleanup |-> cleanup]
      ELSE IF l.err # Nil THEN Prepared(l, cleanup)
      ELSE IF pathFinfo.node.t = "dir"
      THEN IF IsDir(info) THEN Prepared(l, cleanup)
           ELSE Prepared(Sys(E, l.s, "rmall", RemoveAll(l.s.fs, E.isroot, p)), cleanup)
      ELSE Prepared(Sys(E, l.s, "remove", Remove(l.s.fs, E.isroot, p)), cleanup)))

\* prepWrite, its middle part: the parent is made writable when it is not
prepParent(E, S, p, info, dir, dirFinfo) ==
    IF Access(S.fs, E.isroot, dir) = Nil THEN prepTarget(E, S, p, info, NoCleanup)
    ELSE
    With(dirFinfo.mode, LAMBDA oldPerms :
    With(OpsChmod(E, S, "chmodOpen", dir, OpenDirPerm), LAMBDA open :
      IF open.err # Nil THEN Failed(open.s, open.err)
      ELSE
      With(Traced(Sys(E, open.s, "access",
                      [fs |-> open.s.fs, err |-> Access(open.s.fs, E.isroot, dir)]),
                  "access", dir),
           LAMBDA again :
        IF again.err # Nil
        THEN With(RunCleanup(E, again.s, SetBack(dir, oldPerms)), LAMBDA back :
               Failed(back.s, IF back.err # Nil
                              THEN "CannotMakeWritableFailedSettingBack"
                              ELSE "CannotMakeWritable"))
        ELSE prepTarget(E, again.s, p, info, SetBack(dir, oldPerms)))))

\* prepWrite: [s, err, cleanup]
prepWrite(E, S, p, info) ==
    With(Stat(S.fs, Dir(p)), LAMBDA dirFinfo :
    With(Sys(E, S, "stat", [fs |-> S.fs, err |-> dirFinfo.err]), LAMBDA st :
      IF st.err # Nil THEN Failed(st.s, st.err)
      ELSE IF dirFinfo.node.t # "dir" THEN Failed(st.s, "NotADirectory")
      ELSE prepParent(E, st.s, p, info, Dir(p), dirFinfo.node)))

\* the creator closures of extractSymlink, extractNamedPipe, extractSocket,
\* extractBlockDevice and extractCharDevice
Creator(E, S, kind, p, info) ==
    CASE kind = "symlink" ->
           Traced(Sys(E, S, "symlink",
                      Create(S.fs, E.isroot, p,
                             Node("lnk", 511, E.myuid, 0, 0, info.SymlinkTarget))),
                  "symlink", p)
      [] kind = "mkfifo" ->
           Traced(Sys(E, S, "mkfifo",
                      Create(S.fs, E.isroot, p,
                             Node("fifo", DefaultFilePerm, E.myuid, 0, 0, <<>>))),
                  "mkfifo", p)
      [] kind = "listen" ->
           Traced(Sys(E, S, "listen",
                      Create(S.fs, E.isroot, p,
                             Node("sock", 493, E.myuid, 0, 0, <<>>))),
                  "listen", p)
      [] kind = "mknod" -> OpsMknod(E, S, "mknod", p, info)

\* doCreate
doCreate(E, S, p, info, kind) ==
    With(prepWrite(E, S, p, info), LAMBDA prep :
    With(IF prep.err = Nil THEN Creator(E, prep.s, kind, p, info)
         ELSE [s |-> prep.s, err |-> Nil], LAMBDA made :
    With(RunCleanup(E, made.s, prep.cleanup), LAMBDA clean :
      [s |-> clean.s,
       err |-> IF clean.err # Nil /\ made.err = Nil THEN clean.err ELSE made.err])))

\* os.OpenFile(path, O_CREATE|O_WRONLY, DefaultFilePerm): [fs, err]
OpenFile(fs, isroot, myuid, p) ==
    With(RealFollow(fs, p), LAMBDA q :
      IF q \in DOMAIN fs
      THEN IF fs[q].t = "dir" THEN [fs |-> fs, err |-> "EISDIR"]
           ELSE IF ~isroot /\ ~HasOwnerW(fs[q].mode) THEN [fs |-> fs, err |-> "EACCES"]
           ELSE [fs |-> fs, err |-> Nil]
      ELSE Create(fs, isroot, q, Node("reg", DefaultFilePerm, myuid, 0, 0, <<>>)))

\* io.Copy(writeFp, info.File): the stream's bytes land in the file; [fs, err, written]
Copy(fs, p, info) ==
    [fs |-> [fs EXCEPT ![RealFollow(fs, p)].size =
                                  IF @ > info.stream THEN @ ELSE info.stream],
     err |-> Nil]

\* defer writeFp.Close(): the writer is closed when extractRegular returns
Closed(S, p) == Logged(S, "close", "close", p, 0, RootUid, Nil)

\* extractRegular
extractRegular(E, S, p, info) ==
    With(prepWrite(E, S, p, info), LAMBDA prep :
    With(IF prep.err = Nil
         THEN Traced(Sys(E, prep.s, "open",
                         OpenFile(prep.s.fs, E.isroot, E.myuid, p)), "open", p)
         ELSE [s |-> prep.s, err |-> prep.err], LAMBDA opened :
    With(IF opened.err = Nil
         THEN Traced(Sys(E, opened.s, "copy", Copy(opened.s.fs, p, info)), "copy", p)
         ELSE opened, LAMBDA copied :
    With(IF opened.err # Nil THEN opened.err
         ELSE IF copied.err = Nil /\ info.stream # info.FSize THEN "SizeMismatch"
         ELSE Nil, LAMBDA finalError :
    With(RunCleanup(E, copied.s, prep.cleanup), LAMBDA clean :
      [s |-> IF prep.err = Nil /\ opened.err = Nil THEN Closed(clean.s, p) ELSE clean.s,
       err |-> IF finalError # Nil THEN finalError ELSE clean.err])))))

\* extract, its first part: the dispatch on the entry's type.  skip is TRUE where
\* the code returns before the chown / chmod part
\* mutant: an irregular entry is passed over
extractIrregularSkip(E, S, p, info) == [s |-> S, err |-> Nil]
\* extractIrregular
extractIrregular(E, S, p, info) == [s |-> S, err |-> "CannotExtractIrregular"]

\* mutant: device nodes are extracted whatever e.Devs says
SkipsDevsNever(E) == FALSE
\* extract's test before extractBlockDevice and extractCharDevice: !e.Devs
SkipsDevs(E) == ~E.opts.Devs

Dispatch(E, S, p, info) ==
    LET Done(r, skip) == [s |-> r.s, err |-> r.err, skip |-> skip] IN
    LET Skip == [s |-> S, err |-> Nil, skip |-> TRUE] IN
    IF getWhiteOut(info)
    THEN IF ~E.opts.WhiteOuts THEN Skip ELSE Done(applyWhiteOut(E, S, p), TRUE)
    ELSE IF "ModeDir" \in info.bits THEN Done(extractDir(E, S, p, info), FALSE)
    ELSE IF "ModeSymlink" \in info.bits
    THEN Done(doCreate(E, S, p, info, "symlink"), FALSE)
    ELSE IF "ModeSocket" \in info.bits
    THEN IF ~E.opts.Sockets THEN Skip
         ELSE Done(doCreate(E, S, p, info, "listen"), FALSE)
    ELSE IF "ModeNamedPipe" \in info.bits
    THEN Done(doCreate(E, S, p, info, "mkfifo"), FALSE)
    ELSE IF "ModeDevice" \in info.bits
    THEN IF SkipsDevs(E) THEN Skip
         ELSE Done(doCreate(E, S, p, info, "mknod"), FALSE)
    ELSE IF "ModeCharDevice" \in info.bits
    THEN IF SkipsDevs(E) THEN Skip
         ELSE Done(doCreate(E, S, p, info, "mknod"), FALSE)
    ELSE IF "ModeIrregular" \in info.bits
    THEN Done(extractIrregular(E, S, p, info), FALSE)
    ELSE Done(extractRegular(E, S, p, info), FALSE)

\* extract's test for the deferred repair: a directory without owner read and write
NeedsRepair(info) == "ModeDir" \in info.bits /\ ~HasOwnerRW(info.perm)

\* mutant: the deferred repair sets the relaxed mode again
oldModeRelaxed(info) == OrOwnerRW(info.perm)
\* the mode the deferred repair sets: the recorded one
oldMode(info) == info.perm

\* extract, its last part: chmod when Perms is set
ApplyPerms(E, S, p, info) ==
    IF ~E.opts.Perms \/ "ModeSymlink" \in info.bits THEN [s |-> S, err |-> Nil]
    ELSE IF NeedsRepair(info)
    THEN OpsChmod(E, [S EXCEPT !.cleanups = Append(@, [path |-> p, mode |-> oldMode(info)])],
                  "chmod", p, OrOwnerRW(info.perm))
    ELSE OpsChmod(E, S, "chmod", p, info.perm)

\* extract, its middle part: chown when Owners is set
ApplyOwners(E, S, p, info) ==
    IF E.opts.Owners THEN OpsChown(E, S, "chown", p, info.Uid)
    ELSE [s |-> S, err |-> Nil]

\* mutant: chown and chmod follow whatever the dispatch returned
extractThenAlways(E, S, p, info, perr) ==
    IF perr # Nil THEN [s |-> S, err |-> perr]
    ELSE
    With(Dispatch(E, S, p, info), LAMBDA made :
      With(ApplyOwners(E, made.s, p, info), LAMBDA owned :
        IF owned.err # Nil THEN owned ELSE ApplyPerms(E, owned.s, p, info)))
\* Extractor.extract, the WalkFunc of Extract: [s, err]
extract(E, S, p, info, perr) ==
    IF perr # Nil THEN [s |-> S, err |-> perr]
    ELSE
    With(Dispatch(E, S, p, info), LAMBDA made :
      IF made.skip \/ made.err # Nil THEN [s |-> made.s, err |-> made.err]
      ELSE With(ApplyOwners(E, made.s, p, info), LAMBDA owned :
             IF owned.err # Nil THEN owned ELSE ApplyPerms(E, owned.s, p, info)))

(***************************************************************************)
(* Walk, one action per walkFn call.                                       *)
(***************************************************************************)
NoListing == [err |-> Nil, names |-> <<>>]

\* the error walk hands to walkFn
Perr(ans, rd) ==
    IF ans.err # Nil THEN ans.err ELSE IF IsDir(ans.info) THEN rd.err ELSE Nil

\* what Readdirnames may answer for the entry a lookup answered with
Readdirs(ans, n) ==
    IF ans.err = Nil /\ IsDir(ans.info) THEN ReaddirAnswers(n) ELSE {NoListing}

\* the walk after walkFn returned r for p, the child the activation on top of stk
\* looked up (stk empty: p is the root)
AfterVisit(stk, p, ans, rd, r) ==
    IF ans.err # Nil THEN AfterFailedLookup(stk, r)
    ELSE IF IsDir(ans.info) THEN AfterDirVisit(stk, p, rd, r)
    ELSE AfterFileVisit(stk, r)

Record(p, ans, rd, r) ==
    /\ visits' = Append(visits, [path |-> p, isdir |-> ans.err = Nil /\ IsDir(ans.info),
                                 perr |-> Perr(ans, rd), ret |-> r])
    /\ arch' = (p :> ans) @@ arch
    /\ listing' = IF ans.err = Nil /\ IsDir(ans.info) /\ rd.err = Nil
                  THEN (p :> rd.names) @@ listing
                  ELSE listing
    /\ budget' = IF rd.err = Nil THEN budget - Len(rd.names) ELSE budget

Advance(w, after) ==
    /\ stack' = w.stack
    /\ result' = w.result
    /\ pc' = IF w.done THEN after ELSE "walk"

\* mutant: the child's name is not joined to the directory's path
NextPathNoJoin == <<Head(Top(stack).names)>>
\* the child the walk looks up next
NextPath == Join(Top(stack).path, Head(Top(stack).names))
Advanced == [stack EXCEPT ![Len(stack)].names = Tail(@)]

VisitorReturns == {Nil, SkipDir, "E1", "E2"}
WalkInodes == {Inode("DIR", 493, 0, 0, <<>>, 0), Inode("FILE", 420, 0, 1, <<>>, 1)}
Roots == {<<>>, <<"a">>}

\* SquashFs.Walk up to the return of the first walkFn call, walkFn being any function
WalkRoot ==
    /\ pc = "start" /\ visitor = "any"
    /\ \E ans \in LookupAnswers(root, WalkInodes) :
         IF ans.err # Nil
         THEN /\ pc' = "done"
              /\ result' = ans.err
              /\ arch' = (root :> ans) @@ arch
              /\ UNCHANGED <<stack, visits, listing, budget>>
         ELSE \E rd \in Readdirs(ans, budget), r \in VisitorReturns :
                /\ Record(root, ans, rd, r)
                /\ Advance(AfterVisit(<<>>, root, ans, rd, r), "done")
    /\ UNCHANGED <<visitor, root, opts, priv, before, engineVars, ran, cleanErr, ret,
                   ops, fakeroot, run, file, got, cmd, fp>>

\* walk from one walkFn call to the return of the next, walkFn being any function
WalkChild ==
    /\ pc = "walk" /\ visitor = "any"
    /\ \E ans \in LookupAnswers(NextPath, WalkInodes) :
         \E rd \in Readdirs(ans, budget), r \in VisitorReturns :
           /\ Record(NextPath, ans, rd, r)
           /\ Advance(AfterVisit(Advanced, NextPath, ans, rd, r), "done")
    /\ UNCHANGED <<visitor, root, opts, priv, before, engineVars, ran, cleanErr, ret,
                   ops, fakeroot, run, file, got, cmd, fp>>

NoOpts == [WhiteOuts |-> FALSE, Owners |-> FALSE, Perms |-> FALSE, Devs |-> FALSE,
           Sockets |-> FALSE]
EmptyTarget == (<<>> :> Node("dir", DefaultDirPerm, MyUid, 0, 0, <<>>))

InitWalk ==
    /\ pc = "start" /\ visitor = "any"
    /\ root \in Roots
    /\ stack = <<>> /\ visits = <<>> /\ result = Nil
    /\ arch = <<>> /\ listing = <<>> /\ budget = MaxEntries
    /\ opts = NoOpts /\ priv = FALSE /\ tgt = EmptyTarget /\ before = tgt
    /\ cleanups = <<>> /\ ran = <<>> /\ calls = <<>> /\ faults = 0
    /\ cleanErr = Nil /\ ret = Nil /\ ops = "nil" /\ fakeroot = FALSE
    /\ run = 1 /\ file = Root /\ got = NoAnswer /\ cmd = <<>> /\ fp = NoFile

NextWalk == WalkRoot \/ WalkChild
SpecWalk == InitWalk /\ [][NextWalk]_vars

(***************************************************************************)
(* Extract: the provider selection, the walk with extract as its walkFn,   *)
(* the drain of the deferred cleanups, the return.                         *)
(***************************************************************************)
Engine(F) == [opts |-> opts, isroot |-> priv, myuid |-> IF priv THEN RootUid ELSE MyUid,
              ops |-> ops, F |-> F]
EngineState ==
    [fs |-> tgt, cleanups |-> cleanups, calls |-> calls, hit |-> {}, seen |-> {}]

\* the sets of call sites, F and at most n more, that the environment can fail
\* during the call extract(p, info, perr): a site can fail only where it is reached
RECURSIVE FaultSets(_, _, _, _, _)
FaultSets(F, n, p, info, perr) ==
    IF n = 0 THEN {F}
    ELSE {F} \cup
         UNION {FaultSets(F \cup {x}, n - 1, p, info, perr) :
                  x \in extract(Engine(F), EngineState, p, info, perr).s.seen \ F}

\* the effect of the call e.extract(p, ans.info, Perr(ans, rd)), res, where the
\* environment fails the sites F
Visit(F, res, p, ans, rd) ==
    /\ res.s.hit = F
    /\ tgt' = res.s.fs
    /\ cleanups' = res.s.cleanups
    /\ calls' = res.s.calls
    /\ faults' = faults - Cardinality(F)
    /\ Record(p, ans, rd, res.err)

\* mutant: Extract returns the walk's error before the loop over e.cleanups
AfterWalkReturnEarly(walkErr) == IF walkErr # Nil THEN "done" ELSE "drain"
\* where Extract goes on when Walk has returned walkErr: the loop over e.cleanups
AfterWalk(walkErr) == "drain"

\* the walk of Extract goes on as w says
Walked(w) == Advance(w, AfterWalk(w.result))
\* the call of e.extract the walk makes with the activations stk, and the walk after it
VisitInWalk(F, res, stk, p, ans, rd) ==
    /\ Visit(F, res, p, ans, rd)
    /\ Walked(AfterVisit(stk, p, ans, rd, res.err))

\* Extract up to the call of Walk: the choice of the FsOps
ExtractStart ==
    /\ pc = "start" /\ visitor = "extract"
    /\ \E loaded \in (IF ops = "nil" /\ fakeroot THEN BOOLEAN ELSE {TRUE}) :
         IF loaded
         THEN /\ ops' = IF ops # "nil" THEN ops
                        ELSE IF fakeroot THEN "LibcFsOps" ELSE "GoFsOps"
              /\ pc' = "root"
              /\ ret' = ret
         ELSE /\ ops' = ops
              /\ pc' = "done"
              /\ ret' = "ErrSoNotFound"
    /\ ran' = <<>> /\ cleanErr' = Nil
    /\ UNCHANGED <<visitor, root, walkVars, opts, priv, before, engineVars, fakeroot,
                   run, file, got, cmd, fp>>

\* Walk up to the return of the first call of e.extract, when the archive
\* answers the lookup of the root with one of answers and the listing of the
\* directory ans with one of reads[ans]
ExtractRootOf(answers, reads) ==
    /\ pc = "root" /\ visitor = "extract"
    /\ \E ans \in answers :
         IF ans.err # Nil
         THEN /\ pc' = AfterWalk(ans.err)
              /\ result' = ans.err
              /\ arch' = (root :> ans) @@ arch
              /\ UNCHANGED <<stack, visits, listing, budget, engineVars>>
         ELSE \E rd \in reads[ans] :
              \E F \in FaultSets({}, faults, root, ans.info, Perr(ans, rd)) :
                VisitInWalk(F, extract(Engine(F), EngineState, root, ans.info,
                                       Perr(ans, rd)),
                            <<>>, root, ans, rd)
    /\ UNCHANGED <<visitor, root, opts, priv, before, ran, cleanErr, ret, ops,
                   fakeroot, run, file, got, cmd, fp>>

\* an archive read for the first time
ExtractRoot ==
    ExtractRootOf(LookupAnswers(root, DirInodes),
                  [ans \in LookupAnswers(root, DirInodes) |-> Readdirs(ans, budget)])

\* walk from one call of e.extract to the return of the next, when the archive
\* answers the lookup of the next path with one of answers
ExtractChildOf(answers, reads) ==
    /\ pc = "walk" /\ visitor = "extract"
    /\ \E ans \in answers :
         \E rd \in reads[ans] :
         \E F \in FaultSets({}, faults, NextPath, ans.info, Perr(ans, rd)) :
           VisitInWalk(F, extract(Engine(F), EngineState, NextPath, ans.info,
                                  Perr(ans, rd)),
                       Advanced, NextPath, ans, rd)
    /\ UNCHANGED <<visitor, root, opts, priv, before, ran, cleanErr, ret, ops,
                   fakeroot, run, file, got, cmd, fp>>

\* an archive read for the first time
ExtractChild ==
    ExtractChildOf(LookupAnswers(NextPath, Inodes),
                   [ans \in LookupAnswers(NextPath, Inodes) |-> Readdirs(ans, budget)])

\* the assignment in Extract's loop over e.cleanups when a cleanup failed
KeepCleanErr(old, err) == IF old # Nil THEN err ELSE old

\* mutant: the loop runs from the last cleanup to the first
NextCleanupReverse == Len(cleanups) - Len(ran)
\* the index in e.cleanups of the cleanup the loop runs next
NextCleanup == Len(ran) + 1

\* mutant: the loop ends at the first cleanup that fails
DrainedOrFailed == Len(ran) = Len(cleanups) \/ \E i \in 1..Len(ran) : ran[i].err # Nil
\* the range loop has been through all of e.cleanups
Drained == Len(ran) = Len(cleanups)

\* one round of Extract's loop over e.cleanups
Cleanup ==
    /\ pc = "drain" /\ ~Drained
    /\ \E F \in (IF faults > 0 THEN {{}, {"fixBack"}} ELSE {{}}) :
         LET c == cleanups[NextCleanup]
             r == OpsChmod(Engine(F), EngineState, "fixBack", c.path, c.mode) IN
         /\ r.s.hit = F
         /\ tgt' = r.s.fs
         /\ calls' = r.s.calls
         /\ faults' = faults - Cardinality(F)
         /\ ran' = Append(ran, [idx |-> NextCleanup, path |-> c.path,
                                mode |-> c.mode, err |-> r.err])
         /\ cleanErr' = IF r.err # Nil THEN KeepCleanErr(cleanErr, r.err) ELSE cleanErr
    /\ UNCHANGED <<pc, visitor, root, walkVars, opts, priv, before, cleanups, ret,
                   ops, fakeroot, run, file, got, cmd, fp>>

\* mutant: Extract returns cleanErr whatever Walk returned
ExtractResultCleanOnly(walkErr, cErr) == cErr
\* what Extract returns after the loop
ExtractResult(walkErr, cErr) == IF walkErr # Nil THEN walkErr ELSE cErr

\* Extract after the loop over e.cleanups
ExtractReturn ==
    /\ pc = "drain" /\ Drained
    /\ ret' = ExtractResult(result, cleanErr)
    /\ pc' = "done"
    /\ UNCHANGED <<visitor, root, walkVars, opts, priv, before, engineVars, ran,
                   cleanErr, ops, fakeroot, run, file, got, cmd, fp>>

\* what the target directory may hold before Extract
File(size) == Node("reg", DefaultFilePerm, MyUid, size, 0, <<>>)
Populated(fs, d) ==
    (d :> Node("dir", DefaultDirPerm, MyUid, 0, 0, <<>>)) @@ (Join(d, "b") :> File(2)) @@ fs
Targets == {EmptyTarget, Populated(EmptyTarget, <<"a">>)}

\* the options of the extractions explored: whiteouts are honoured, and no
\* inode of Inodes is a device that is no whiteout, or a socket
Options == [WhiteOuts : {TRUE}, Owners : BOOLEAN, Perms : BOOLEAN, Devs : {FALSE},
            Sockets : {FALSE}]

Init ==
    /\ pc = "start" /\ visitor = "extract"
    /\ root = Root
    /\ stack = <<>> /\ visits = <<>> /\ result = Nil
    /\ arch = <<>> /\ listing = <<>> /\ budget = MaxExtracted
    /\ opts \in Options /\ priv \in BOOLEAN /\ tgt \in Targets /\ before = tgt
    /\ cleanups = <<>> /\ ran = <<>> /\ calls = <<>> /\ faults = MaxFaults
    /\ cleanErr = Nil /\ ret = Nil /\ ops = "nil" /\ fakeroot = FALSE
    /\ run = 1 /\ file = Root /\ got = NoAnswer /\ cmd = <<>> /\ fp = NoFile

Next == ExtractStart \/ ExtractRoot \/ ExtractChild \/ Cleanup \/ ExtractReturn
Spec == Init /\ [][Next]_vars

(***************************************************************************)
(* Extract called twice with the same archive, options and target          *)
(* directory, which is empty before the first call: the second call finds  *)
(* what the first one left.  No system call fails for a reason outside the *)
(* engine.  The archive holds directories, regular files, symbolic links   *)
(* and named pipes.                                                        *)
(***************************************************************************)
LinkInodes == {Inode("SLINK", 511, 0, 1, <<"a">>, 0)}
PipeInodes == {Inode("FIFO", 420, 0, 0, <<>>, 0)}
TwiceInodes == DirInodes \cup FileInodes \cup LinkInodes \cup PipeInodes

\* what the archive answered in the first call, which it answers again
Replayed(p) == IF p \in DOMAIN arch THEN {arch[p]} ELSE {}
Reread(p) == IF p \in DOMAIN listing THEN [err |-> Nil, names |-> listing[p]]
             ELSE NoListing

InitTwice ==
    /\ pc = "start" /\ visitor = "extract"
    /\ root = Root
    /\ stack = <<>> /\ visits = <<>> /\ result = Nil
    /\ arch = <<>> /\ listing = <<>> /\ budget = MaxExtracted
    /\ opts \in Options /\ priv \in BOOLEAN /\ tgt = EmptyTarget /\ before = tgt
    /\ cleanups = <<>> /\ ran = <<>> /\ calls = <<>> /\ faults = 0
    /\ cleanErr = Nil /\ ret = Nil /\ ops = "nil" /\ fakeroot = FALSE
    /\ run = 1 /\ file = Root /\ got = NoAnswer /\ cmd = <<>> /\ fp = NoFile

ExtractRootFirst == run = 1 /\ ExtractRoot
ExtractChildFirst ==
    /\ run = 1
    /\ ExtractChildOf(LookupAnswers(NextPath, TwiceInodes),
                      [ans \in LookupAnswers(NextPath, TwiceInodes) |->
                         Readdirs(ans, budget)])
ExtractRootAgain ==
    run = 2 /\ ExtractRootOf(Replayed(root), [ans \in Replayed(root) |-> {Reread(root)}])
ExtractChildAgain ==
    /\ run = 2
    /\ ExtractChildOf(Replayed(NextPath),
                      [ans \in Replayed(NextPath) |-> {Reread(NextPath)}])

\* the caller calls Extract again after a call that returned nil, on the same
\* Extractor (e.cleanups keeps its elements) or on a new one for the same
\* archive, options and target directory
ExtractAgain ==
    /\ pc = "done" /\ run = 1 /\ ret = Nil
    /\ pc' = "start" /\ run' = 2
    /\ before' = tgt
    /\ stack' = <<>> /\ visits' = <<>> /\ result' = Nil /\ budget' = MaxExtracted
    /\ cleanups' \in {cleanups, <<>>}
    /\ UNCHANGED <<visitor, root, arch, listing, opts, priv, tgt, ran, calls, faults,
                   cleanErr, ret, ops, fakeroot, file, got, cmd, fp>>

NextTwice ==
    \/ ExtractStart \/ ExtractRootFirst \/ ExtractChildFirst
    \/ ExtractRootAgain \/ ExtractChildAgain
    \/ Cleanup \/ ExtractReturn \/ ExtractAgain
SpecTwice == InitTwice /\ [][NextTwice]_vars

(***************************************************************************)
(* File.Stat and File.Lstat of an open File of the archive.  arch is the   *)
(* archive: what a lookup of each of its paths finds.                      *)
(***************************************************************************)
StatNames == {<<"a">>, <<"b">>}
StatLinks == StatNames \cup {<<"c">>}
StatInodes ==
    {Inode("FILE", 420, 0, 1, <<>>, 1), Inode("DIR", 493, 0, 0, <<>>, 0),
     Inode("CDEV", 420, 257, 0, <<>>, 0)}
    \cup {Inode(t, 511, 0, 1, l, 0) : t \in {"SLINK", "EXT_SLINK"}, l \in StatLinks}
Found(p, ino) == [err |-> Nil, info |-> getFileInfo(p, ino)]
NotFound == [err |-> ErrNotExist, info |-> EmptyInfo(<<>>)]
Archives ==
    {(Root :> Found(Root, Inode("DIR", 493, 0, 0, <<>>, 0)))
       @@ (<<"a">> :> Found(<<"a">>, x)) @@ (<<"b">> :> Found(<<"b">>, y)) :
     x \in StatInodes, y \in StatInodes}

\* SquashFs.OpenFile(name) and getFileInfo of the File it returns; the empty
\* name of an entry that is no link is looked up as the library decides:
\* empty is what it finds then
SquashFsOpenFile(name, empty) ==
    IF name = <<>> THEN empty
    ELSE IF name \in DOMAIN arch THEN arch[name] ELSE NotFound

\* File.Lstat
FileLstat(f) == [err |-> Nil, info |-> arch[f].info]
\* File.Stat
FileStat(f, empty) ==
    With(FileLstat(f), LAMBDA own :
      IF own.err # Nil \/ "ModeSymlink" \in own.info.bits THEN own
      ELSE With(SquashFsOpenFile(own.info.SymlinkTarget, empty), LAMBDA tfile :
             IF tfile.err # Nil THEN [err |-> own.err, info |-> EmptyInfo(<<>>)]
             ELSE [err |-> Nil, info |-> tfile.info]))

InitStat ==
    /\ pc = "opened" /\ visitor = "any"
    /\ root = Root
    /\ stack = <<>> /\ visits = <<>> /\ result = Nil
    /\ arch \in Archives /\ listing = <<>> /\ budget = 0
    /\ opts = NoOpts /\ priv = FALSE /\ tgt = EmptyTarget /\ before = tgt
    /\ cleanups = <<>> /\ ran = <<>> /\ calls = <<>> /\ faults = 0
    /\ cleanErr = Nil /\ ret = Nil /\ ops = "nil" /\ fakeroot = FALSE
    /\ run = 1 /\ file \in DOMAIN arch /\ got = NoAnswer /\ cmd = <<>> /\ fp = NoFile

CallStat ==
    /\ pc = "opened"
    /\ \E empty \in {arch[Root], NotFound} : got' = FileStat(file, empty)
    /\ pc' = "Stat"
    /\ UNCHANGED <<visitor, root, walkVars, opts, priv, before, engineVars, ran,
                   cleanErr, ret, ops, fakeroot, run, file, cmd, fp>>
CallLstat ==
    /\ pc = "opened"
    /\ got' = FileLstat(file)
    /\ pc' = "Lstat"
    /\ UNCHANGED <<visitor, root, walkVars, opts, priv, before, engineVars, ran,
                   cleanErr, ret, ops, fakeroot, run, file, cmd, fp>>

NextStat == CallStat \/ CallLstat
SpecStat == InitStat /\ [][NextStat]_vars

(***************************************************************************)
(* One call of e.extract, as the walk makes it for the entry at EntryPath, *)
(* over every kind of entry, every combination of options, each FsOps and  *)
(* a target that already holds something at the path or not.               *)
(***************************************************************************)
EntryPath == <<"a", "b">>
Devnos == {0, 257}
Link(to) == Node("lnk", 511, MyUid, 0, 0, to)

\* one inode of every type; directories with each mode, devices with each number,
\* and a file whose content stream ends before the recorded size
EntryInodes ==
    {Inode(t, m, 0, 0, <<>>, 0) : t \in {"DIR", "EXT_DIR"}, m \in DirPerms}
    \cup {Inode(t, 420, 0, 1, <<>>, 1) : t \in {"FILE", "EXT_FILE"}}
    \cup {Inode("FILE", 420, 0, 2, <<>>, 1)}
    \cup {Inode(t, 511, 0, 1, <<"f">>, 0) : t \in {"SLINK", "EXT_SLINK"}}
    \cup {Inode(t, 420, d, 0, <<>>, 0) :
            t \in {"BDEV", "CDEV", "EXT_BDEV", "EXT_CDEV"}, d \in Devnos}
    \cup {Inode(t, 420, 0, 0, <<>>, 0) : t \in {"FIFO", "SOCKET", "EXT_FIFO", "EXT_SOCKET"}}

\* a FileInfo with os.ModeIrregular, which no inode type gives
IrregularInfo(p) == [EmptyInfo(p) EXCEPT !.bits = {"ModeIrregular"}, !.perm = 420]
\* what the walk may hand to e.extract for EntryPath
EntryAnswers ==
    LookupAnswers(EntryPath, EntryInodes)
    \cup {[err |-> Nil, info |-> IrregularInfo(EntryPath)]}

\* the target: the parent directory writable or not, a file <<"f">> beside it
EntryParents ==
    {(Dir(EntryPath) :> Node("dir", m, MyUid, 0, 0, <<>>)) @@ (<<"f">> :> File(1))
        @@ EmptyTarget : m \in {493, 320}}
\* targets where the parent of EntryPath is missing, or is a file
NoParents == {(<<"f">> :> File(1)) @@ EmptyTarget,
              (Dir(EntryPath) :> File(1)) @@ (<<"f">> :> File(1)) @@ EmptyTarget}
\* fs, and fs with something at p: a file, a directory that is not empty, a
\* symbolic link to nothing, a symbolic link to a file
Occupied(fs, p) ==
    {fs, (p :> File(2)) @@ fs, Populated(fs, p), (p :> Link(<<"nowhere">>)) @@ fs,
     (p :> Link(<<"f">>)) @@ fs}
EntryTargets == UNION {Occupied(fs, EntryPath) : fs \in EntryParents} \cup NoParents
EntryOptions == [WhiteOuts : BOOLEAN, Owners : BOOLEAN, Perms : BOOLEAN, Devs : BOOLEAN,
                 Sockets : BOOLEAN]
FsOps == {"GoFsOps", "FakerootOps", "LibcFsOps"}

InitEntry ==
    /\ pc = "entry" /\ visitor = "extract"
    /\ root = Root
    /\ stack = <<>> /\ visits = <<>> /\ result = Nil
    /\ arch = <<>> /\ listing = <<>> /\ budget = 0
    /\ opts \in EntryOptions /\ priv \in BOOLEAN /\ tgt \in EntryTargets /\ before = tgt
    /\ cleanups = <<>> /\ ran = <<>> /\ calls = <<>> /\ faults = MaxFaults
    /\ cleanErr = Nil /\ ret = Nil /\ ops \in FsOps /\ fakeroot = FALSE
    /\ run = 1 /\ file = Root /\ got = NoAnswer /\ cmd = <<>> /\ fp = NoFile

\* a call of e.extract on its own
VisitAlone(F, res, p, ans, rd) ==
    /\ Visit(F, res, p, ans, rd)
    /\ result' = res.err

\* the call e.extract(EntryPath, info, perr) of the walk
ExtractEntry ==
    /\ pc = "entry" /\ visitor = "extract"
    /\ \E ans \in EntryAnswers :
         \E rd \in Readdirs(ans, budget) :
         \E F \in FaultSets({}, faults, EntryPath, ans.info, Perr(ans, rd)) :
           VisitAlone(F, extract(Engine(F), EngineState, EntryPath, ans.info,
                                 Perr(ans, rd)),
                      EntryPath, ans, rd)
    /\ pc' = "visited"
    /\ UNCHANGED <<visitor, root, stack, opts, priv, before, ran, cleanErr, ret, ops,
                   fakeroot, run, file, got, cmd, fp>>

NextEntry == ExtractEntry
SpecEntry == InitEntry /\ [][NextEntry]_vars

(***************************************************************************)
(* The extract command of squashtool (squashtool/main.go), which has an    *)
(* Extractor of its own: one call of its e.extract for a white-out entry   *)
(* at EntryPath, the options being the command's flags.                    *)
(***************************************************************************)
\* extractMain: the Extractor's fields are the flags of the command line
ToolFlags == EntryOptions
ToolAnswers ==
    LookupAnswers(EntryPath, {Inode(t, 420, 0, 0, <<>>, 0) : t \in {"CDEV", "EXT_CDEV"}})

\* squashtool's e.extract(p, info, perr) up to the return of its white-out
\* branch, for an info with getWhiteOut(info) # ""
toolExtractWhiteOut(E, S, p, info, perr) ==
    IF perr # Nil THEN [s |-> S, err |-> perr]
    ELSE IF E.opts.WhiteOuts THEN [s |-> S, err |-> Nil]
    ELSE applyWhiteOut(E, S, p)

InitTool ==
    /\ pc = "tool" /\ visitor = "extract"
    /\ root = Root
    /\ stack = <<>> /\ visits = <<>> /\ result = Nil
    /\ arch = <<>> /\ listing = <<>> /\ budget = 0
    /\ opts \in ToolFlags /\ priv \in BOOLEAN /\ tgt \in EntryTargets /\ before = tgt
    /\ cleanups = <<>> /\ ran = <<>> /\ calls = <<>> /\ faults = MaxFaults
    /\ cleanErr = Nil /\ ret = Nil /\ ops = "nil" /\ fakeroot \in BOOLEAN
    /\ run = 1 /\ file = Root /\ got = NoAnswer /\ cmd = <<>> /\ fp = NoFile

ToolExtractEntry ==
    /\ pc = "tool"
    /\ \E ans \in ToolAnswers :
       \E F \in (IF faults > 0 THEN {{}, {"whiteout"}} ELSE {{}}) :
         VisitAlone(F, toolExtractWhiteOut(Engine(F), EngineState, EntryPath, ans.info,
                                           ans.err),
                    EntryPath, ans, NoListing)
    /\ pc' = "visited"
    /\ UNCHANGED <<visitor, root, stack, opts, priv, before, ran, cleanErr, ret, ops,
                   fakeroot, run, file, got, cmd, fp>>

NextTool == ToolExtractEntry
SpecTool == InitTool /\ [][NextTool]_vars

(***************************************************************************)
(* Properties of Walk (checked under SpecWalk).                            *)
(***************************************************************************)
Visited(p) == \E i \in 1..Len(visits) : visits[i].path = p
Aborts(r) == r \notin {Nil, SkipDir}
\* the names listed after p in the directory p was found in
Listed(p) == listing[Dir(p)]
IndexOf(p) == CHOOSE k \in 1..Len(Listed(p)) : Listed(p)[k] = Base(p)
HasNextSibling(p) == p # root /\ IndexOf(p) < Len(Listed(p))
NextSibling(p) == Join(Dir(p), Listed(p)[IndexOf(p) + 1])
\* after the i-th walkFn call the walk goes on with the next sibling of its path
ContinuesAfter(i) ==
    LET p == visits[i].path IN
    /\ \A j \in 1..Len(visits) : ~Below(p, visits[j].path)
    /\ HasNextSibling(p) =>
         /\ i < Len(visits) => visits[i + 1].path = NextSibling(p)
         /\ pc = "done" => i < Len(visits)

\* C5: Walk is pre-order.  Every walkFn call for a path other than the root comes
\* after the call for its parent directory, and the call for a directory comes
\* before the call for anything below it.
C5_PreOrder ==
    \A j \in 1..Len(visits) :
      LET q == visits[j].path IN
      /\ q # root => \E i \in 1..(j - 1) : visits[i].path = Dir(q) /\ visits[i].isdir
      /\ \A i \in 1..Len(visits) : Below(visits[i].path, q) => i < j
C5_Witness ==
    /\ pc = "done"
    /\ \E j \in 1..Len(visits) : Len(visits[j].path) = Len(root) + 2

\* C6: when the root's metadata cannot be retrieved, walkFn is called exactly
\* once, with that error, and Walk returns what walkFn returned.
C6_RootErrorVisited ==
    (pc = "done" /\ root \in DOMAIN arch /\ arch[root].err # Nil) =>
        /\ Len(visits) = 1
        /\ visits[1].path = root /\ visits[1].perr = arch[root].err
        /\ result = WalkResult(visits[1].ret)

\* C7: when walkFn returns SkipDir for a directory, nothing below the directory
\* is visited, the walk goes on with the sibling that follows it in listing order
\* (every later sibling is visited unless a later walkFn call ends the walk or
\* skips the rest of the directory), and Walk does not return SkipDir.
C7_SkipDir ==
    /\ \A i \in 1..Len(visits) :
         (visits[i].isdir /\ visits[i].ret = SkipDir) =>
           /\ ContinuesAfter(i)
           /\ (pc = "done" /\ visits[i].path # root) =>
                \A k \in (IndexOf(visits[i].path) + 1)..Len(Listed(visits[i].path)) :
                  \/ Visited(Join(Dir(visits[i].path), Listed(visits[i].path)[k]))
                  \/ \E j \in (i + 1)..Len(visits) :
                       visits[j].ret # Nil /\ ~(visits[j].isdir /\ visits[j].ret = SkipDir)
                                           /\ ~(visits[j].perr # Nil /\ visits[j].ret = SkipDir)
    /\ pc = "done" => result # SkipDir
C7_Witness ==
    /\ pc = "done"
    /\ \E i \in 1..(Len(visits) - 1) :
         /\ visits[i].isdir /\ visits[i].ret = SkipDir /\ visits[i].perr = Nil
         /\ Len(listing[visits[i].path]) > 0
         /\ HasNextSibling(visits[i].path)
         /\ visits[i + 1].path = NextSibling(visits[i].path)

\* C8: an error other than SkipDir from walkFn ends the walk at once and is what
\* Walk returns; a SkipDir that reaches the top level makes Walk return nil.
C8_Abort ==
    /\ \A i \in 1..Len(visits) :
         Aborts(visits[i].ret) =>
           i = Len(visits) /\ pc = "done" /\ result = visits[i].ret
    /\ (pc = "done" /\ Len(visits) > 0 /\ visits[Len(visits)].ret = SkipDir) =>
         result = Nil
C8_Witness ==
    /\ pc = "done" /\ Len(visits) >= 3
    /\ Aborts(visits[Len(visits)].ret) /\ Len(visits[Len(visits)].path) = Len(root) + 2
    /\ \E p \in DOMAIN listing :
         \E k \in 1..Len(listing[p]) : ~Visited(Join(p, listing[p][k]))

\* the walkFn calls that returned SkipDir for an entry that is no directory
SkippedFiles ==
    {i \in 1..Len(visits) :
        ~visits[i].isdir /\ visits[i].perr = Nil /\ visits[i].ret = SkipDir}

\* C37: when walkFn returns SkipDir for an entry that is not a directory, nothing
\* else in that entry's directory is visited afterwards, the walk goes on with
\* the sibling that follows the directory in listing order, and Walk does not
\* return SkipDir.
C37_SkipDirOfFile ==
    /\ \A i \in SkippedFiles :
         LET d == Dir(visits[i].path) IN
         IF visits[i].path = root THEN i = Len(visits) /\ pc = "done"
         ELSE /\ \A j \in (i + 1)..Len(visits) : ~BelowEq(d, visits[j].path)
              /\ HasNextSibling(d) =>
                   /\ i < Len(visits) => visits[i + 1].path = NextSibling(d)
                   /\ pc = "done" => i < Len(visits)
              /\ ~HasNextSibling(d) /\ d = root => i = Len(visits) /\ pc = "done"
    /\ pc = "done" => result # SkipDir
C37_Witness ==
    /\ pc = "done" /\ result = Nil
    /\ \E i \in SkippedFiles :
         /\ visits[i].path # root /\ Dir(visits[i].path) # root
         /\ HasNextSibling(visits[i].path) /\ ~Visited(NextSibling(visits[i].path))
         /\ HasNextSibling(Dir(visits[i].path))
         /\ i < Len(visits) /\ visits[i + 1].path = NextSibling(Dir(visits[i].path))

\* C9: when walk hands walkFn an error for a path (the lookup of a child failed or
\* the listing of a directory failed), walkFn is called once for the path and
\* nothing below the path is visited whatever walkFn returns; an abort error ends
\* the walk, any other return lets it go on with the next sibling.
C9_ErrorVisit ==
    \A i \in 1..Len(visits) :
      visits[i].perr # Nil =>
        /\ \A j \in 1..Len(visits) : visits[j].path = visits[i].path => j = i
        /\ \A j \in 1..Len(visits) : ~Below(visits[i].path, visits[j].path)
        /\ Aborts(visits[i].ret) =>
             i = Len(visits) /\ pc = "done" /\ result = visits[i].ret
        /\ ~Aborts(visits[i].ret) => ContinuesAfter(i)
C9_Witness ==
    /\ pc = "done"
    /\ \E i \in 1..(Len(visits) - 1), j \in 1..Len(visits) :
         /\ visits[i].perr = ErrNotExist /\ visits[i].ret = SkipDir
         /\ HasNextSibling(visits[i].path)
         /\ visits[i + 1].path = NextSibling(visits[i].path)
         /\ visits[j].perr = ReaddirFailed /\ visits[j].ret = Nil

(***************************************************************************)
(* Properties of Extract (checked under Spec).                             *)
(***************************************************************************)
Walking == pc \in {"root", "walk"}
\* the mode of what the target holds at p
ModeAt(p) == Stat(tgt, p).node.mode
\* the permission bits the archive records for p
Recorded(p) == arch[p].info.perm
\* the chmod calls extract made for p during the walk
WalkChmods(p) ==
    {k \in 1..Len(calls) :
       calls[k].op = "chmod" /\ calls[k].site = "chmod" /\ calls[k].path = p}
NoChmodFailed == \A k \in 1..Len(calls) : calls[k].op = "chmod" => calls[k].err = Nil
CleanupsOf(p) == {k \in 1..Len(cleanups) : cleanups[k].path = p}
\* the i-th walkFn call was for a directory entry and extract returned nil
DirExtracted(i) == visits[i].isdir /\ visits[i].perr = Nil /\ visits[i].ret = Nil

\* C1: during Extract every deferred cleanup is executed exactly once, in the
\* order it was appended, and only after Walk has returned: what has been executed
\* is at any moment a prefix of e.cleanups, it is empty while the walk is visiting
\* entries, and it is the whole list when Extract returns.
C1_CleanupsOnceInOrderAfterWalk ==
    /\ Len(ran) <= Len(cleanups)
    /\ \A i \in 1..Len(ran) :
         /\ ran[i].idx = i
         /\ ran[i].path = cleanups[i].path /\ ran[i].mode = cleanups[i].mode
    /\ pc \in {"start", "root", "walk"} =>
         /\ ran = <<>>
         /\ \A k \in 1..Len(calls) : calls[k].site # "fixBack"
    /\ pc = "done" => Len(ran) = Len(cleanups)
C1_Witness ==
    /\ pc = "done" /\ Len(cleanups) >= 2 /\ Len(ran) = Len(cleanups)
    /\ Len(visits) > Len(cleanups)

\* C2: when the walk ends with an error, every cleanup registered before is still
\* executed before Extract returns, and every directory whose restoring chmod
\* succeeded has the mode the archive records for it.
C2_CleanupsOnWalkError ==
    pc = "done" /\ result # Nil =>
        /\ Len(ran) = Len(cleanups)
        /\ \A i \in 1..Len(ran) :
             ran[i].err = Nil => ModeAt(cleanups[i].path) = Recorded(cleanups[i].path)
C2_Witness ==
    /\ pc = "done" /\ result # Nil /\ ret = result
    /\ Len(visits) >= 2 /\ visits[Len(visits)].ret = result
    /\ Len(cleanups) >= 1 /\ \A i \in 1..Len(ran) : ran[i].err = Nil
    /\ ModeAt(cleanups[1].path) # OrOwnerRW(ModeAt(cleanups[1].path))

\* C3: with Perms, for a directory entry recorded with mode 0500 (a) an
\* unprivileged process creates every child of it, files and directories alike,
\* when nothing outside the engine fails, and (b) the directory is not at 0500
\* while the walk is still visiting entries.
C3_ReadOnlyDirChildren ==
    opts.Perms =>
      \A i \in 1..Len(visits) :
        DirExtracted(i) /\ Recorded(visits[i].path) = 320 =>
          /\ ~priv /\ ~opts.Owners /\ faults = MaxFaults =>
               \A j \in 1..Len(visits) :
                 /\ Dir(visits[j].path) = visits[i].path /\ visits[j].path # root
                 /\ visits[j].perr = Nil /\ ~getWhiteOut(arch[visits[j].path].info)
                 => visits[j].ret = Nil
          /\ pc = "walk" => ModeAt(visits[i].path) # 320

\* C4: with Perms, for a directory entry whose recorded permission bits hold
\* neither owner read nor owner write, the chmod of the walk uses the recorded
\* mode plus 0600, exactly one cleanup is appended for the directory, and when
\* Extract has returned and no chmod failed the directory has its recorded mode.
C4_RepairDeferred ==
    opts.Perms =>
      \A i \in 1..Len(visits) :
        DirExtracted(i) /\ ~HasOwnerRW(Recorded(visits[i].path)) =>
          LET p == visits[i].path IN
          /\ WalkChmods(p) # {}
          /\ \A k \in WalkChmods(p) : calls[k].mode = Recorded(p) + OwnerRW
          /\ Cardinality(CleanupsOf(p)) = 1
          /\ pc = "done" /\ NoChmodFailed => ModeAt(p) = Recorded(p)
C4_Witness ==
    /\ pc = "done" /\ opts.Perms /\ ~priv /\ NoChmodFailed
    /\ \E i \in 1..Len(visits) :
         /\ DirExtracted(i) /\ ~HasOwnerRW(Recorded(visits[i].path))
         /\ ModeAt(visits[i].path) = Recorded(visits[i].path)
         /\ \E j \in 1..Len(visits) :
              Dir(visits[j].path) = visits[i].path /\ j > i /\ visits[j].ret = Nil

(***************************************************************************)
(* Properties of one call of extract (checked under SpecEntry).            *)
(***************************************************************************)
EntryInfo == arch[EntryPath].info
Absent(fs, p) == IsNotExist(Lstat(fs, p).err)

\* C10: for a whiteout entry at P, with WhiteOuts the call that returns nil leaves
\* nothing at P, whatever the target held there, and when the target held nothing
\* at P the call returns nil and changes nothing; without WhiteOuts the call
\* returns nil and the target is as it was.
C10_WhiteOut ==
    pc = "visited" /\ visits[1].perr = Nil /\ getWhiteOut(EntryInfo) =>
        IF opts.WhiteOuts
        THEN /\ visits[1].ret = Nil => Absent(tgt, EntryPath)
             /\ Absent(before, EntryPath) => visits[1].ret = Nil /\ tgt = before
        ELSE visits[1].ret = Nil /\ tgt = before

\* the call was made for the entry without an error from the walk
Called == pc = "visited" /\ visits[1].perr = Nil
Ret == visits[1].ret
\* nothing outside the engine failed during the call
NoFault == faults = MaxFaults
\* what the target held / holds at EntryPath
Was == Lstat(before, EntryPath).node
Is == Lstat(tgt, EntryPath).node
\* the entry is a regular file: an inode of type FILE or EXT_FILE
RegularEntry == EntryInfo.bits = {} /\ EntryInfo.SymlinkTarget = <<>>
SubtreeAt(fs, p) == {q \in DOMAIN fs : Below(p, q)}

\* C11: when the target path of a regular-file entry holds a directory, with
\* whatever below it, and nothing outside the engine fails, the call removes the
\* whole subtree and leaves a regular file there; it returns nil when the stream
\* has the recorded size, and then the file holds the entry's content.
C11_FileReplacesDir ==
    Called /\ RegularEntry /\ Was.t = "dir" /\ NoFault =>
        /\ Is.t = "reg" /\ SubtreeAt(tgt, EntryPath) = {}
        /\ EntryInfo.stream = EntryInfo.FSize => Ret = Nil
        /\ Ret = Nil => Is.size = EntryInfo.FSize
C11_Witness ==
    /\ Called /\ RegularEntry /\ Was.t = "dir" /\ SubtreeAt(before, EntryPath) # {}
    /\ ~priv /\ ~HasOwnerW(before[Dir(EntryPath)].mode)
    /\ Ret = Nil /\ Is.t = "reg" /\ Is.size = EntryInfo.FSize

\* the entry is a directory
DirEntry == IsDir(EntryInfo)

\* C12: when the target path of a directory entry holds a regular file and
\* nothing outside the engine fails, the call removes the file and leaves a
\* directory there, so that the children of the entry can be extracted into it.
C12_DirReplacesFile ==
    Called /\ DirEntry /\ Was.t = "reg" /\ NoFault => Is.t = "dir"

\* the second call of Extract has returned
SecondDone == run = 2 /\ pc = "done"

CallsOf(op) == {k \in 1..Len(calls) : calls[k].op = op}
\* io.Copy returned an error
CopyFailed == \E k \in CallsOf("copy") : calls[k].err # Nil

\* C14: the call for a regular-file entry returns nil only if the target holds a
\* regular file with as many bytes as the entry records; when the stream ends
\* before the recorded size, the call returns an error, which is the
\* size-mismatch error when io.Copy was reached.
C14_SizeInvariant ==
    Called /\ RegularEntry =>
        /\ Ret = Nil => Is.t = "reg" /\ Is.size = EntryInfo.FSize
        /\ EntryInfo.stream < EntryInfo.FSize => Ret # Nil
        /\ EntryInfo.stream < EntryInfo.FSize /\ CallsOf("copy") # {} =>
               Ret = "SizeMismatch"

\* C15: when io.Copy returns a read error while the file of a regular-file
\* entry is being written, the call returns that error, never nil.
C15_CopyErrorReturned ==
    Called /\ RegularEntry /\ CopyFailed =>
        \E k \in CallsOf("copy") : Ret = calls[k].err

\* the entry is a symbolic link: an inode of type SLINK or EXT_SLINK
SymlinkEntry == EntryInfo.SymlinkTarget # <<>>

\* C16: with Perms enabled, the call for a symbolic-link entry never calls
\* chmod on the entry's target path.
C16_NoChmodOfSymlink ==
    Called /\ opts.Perms /\ SymlinkEntry =>
        \A k \in CallsOf("chmod") : calls[k].path # EntryPath

\* the entry is a block or character device
DeviceEntry == EntryInfo.bits \cap {"ModeDevice", "ModeCharDevice"} # {}
\* the call left the target as it was, called neither chown nor chmod nor any
\* creating system call, and returned nil
Untouched == tgt = before /\ calls = <<>> /\ Ret = Nil

IrregularEntry == "ModeIrregular" \in EntryInfo.bits

\* C18: the call for an entry of irregular type returns an error under every
\* combination of options, and leaves the target as it was: the entry is not
\* passed over with nil and nothing is created for it.
C18_IrregularFails ==
    Called /\ IrregularEntry => Ret # Nil /\ tgt = before /\ calls = <<>>
C18_Witness ==
    /\ Called /\ IrregularEntry /\ Ret = "CannotExtractIrregular" /\ tgt = before
    /\ ~opts.WhiteOuts /\ ~opts.Devs /\ ~opts.Sockets /\ ~opts.Owners /\ ~opts.Perms
    /\ Absent(before, EntryPath)

\* the entry is one the call materializes through prepWrite: a symbolic link, a
\* named pipe, a socket with Sockets enabled, a device that is no white-out
\* with Devs enabled, or a regular file
Materialized ==
    /\ ~getWhiteOut(EntryInfo) /\ ~DirEntry /\ ~IrregularEntry
    /\ "ModeSocket" \in EntryInfo.bits => opts.Sockets
    /\ DeviceEntry => opts.Devs
\* os.Stat of the parent of the target path fails, or finds no directory
ParentUnusable ==
    \/ Stat(before, Dir(EntryPath)).err # Nil
    \/ Stat(before, Dir(EntryPath)).node.t # "dir"
Creators == {"symlink", "mkfifo", "listen", "mknod", "open"}

\* C19: when the parent of the target path of a materialized entry that is no
\* directory cannot be stat'ed or is no directory, the call returns an error,
\* calls no creating system call, and calls neither chown nor chmod.
C19_UnusableParent ==
    Called /\ Materialized /\ ParentUnusable =>
        /\ Ret # Nil
        /\ \A k \in 1..Len(calls) : calls[k].op \notin Creators \cup {"chown", "chmod"}

\* the system calls that create the entry's object, os.OpenFile and io.Copy for
\* a regular file, and those of them that failed
CreateCalls == UNION {CallsOf(op) : op \in Creators \cup {"copy"}}
FailedCreate == {k \in CreateCalls : calls[k].err # Nil}
\* io.Copy returned nil after fewer or more bytes than the entry records
ShortWrite ==
    /\ CallsOf("copy") # {} /\ ~CopyFailed
    /\ EntryInfo.stream # EntryInfo.FSize
\* the cleanup prepWrite handed back, the chmod that sets the parent's mode
\* back, ran and failed
FailedCleanup == {k \in 1..Len(calls) : calls[k].site = "chmodBack" /\ calls[k].err # Nil}

\* C20: when the creation of the entry's object fails, by a failed system call
\* or a size mismatch, the call returns the creation's error, whether the
\* cleanup fails or not; when the creation succeeds and the cleanup fails, the
\* call returns the cleanup's error.
C20_ErrorPrecedence ==
    Called /\ CreateCalls # {} =>
        /\ \A k \in FailedCreate : Ret = calls[k].err
        /\ FailedCreate = {} /\ ShortWrite => Ret = "SizeMismatch"
        /\ FailedCreate = {} /\ ~ShortWrite => \A k \in FailedCleanup : Ret = calls[k].err

(***************************************************************************)
(* Further properties of Extract (checked under Spec).                     *)
(***************************************************************************)
\* the cleanups of e.cleanups that ran and failed, as indices into ran
FailedRepairs == {i \in 1..Len(ran) : ran[i].err # Nil}

\* C21: when Walk returned an error and one or more of the deferred cleanups
\* failed as well, Extract returns what Walk returned.
C21_WalkErrorFirst ==
    pc = "done" /\ result # Nil /\ FailedRepairs # {} => ret = result
C21_Witness ==
    pc = "done" /\ result # Nil /\ FailedRepairs # {} /\ ret = result

\* the calls of e.extract that returned an error, as indices into visits
FailedVisits == {i \in 1..Len(visits) : visits[i].ret # Nil}

\* C22: during Extract the first error e.extract returns ends the walk: the
\* call that returned it is the last one, so nothing is visited or materialized
\* after it, Walk returns that error, and so does Extract.
C22_FirstErrorEndsWalk ==
    \A i \in FailedVisits :
        /\ i = Len(visits)
        /\ ~Walking
        /\ result = visits[i].ret
        /\ pc = "done" => ret = visits[i].ret
C22_Witness ==
    /\ pc = "done" /\ Len(visits) = 2 /\ FailedVisits = {2} /\ ret = visits[2].ret
    /\ Len(listing[Root]) = 2

(***************************************************************************)
(* Properties of a second Extract (checked under SpecTwice).               *)
(***************************************************************************)
\* the calls of e.extract of the running Extract that can have appended to
\* e.cleanups: those for a directory without owner read and write, with Perms
Registering ==
    {i \in 1..Len(visits) :
       /\ visits[i].isdir /\ visits[i].perr = Nil
       /\ opts.Perms /\ NeedsRepair(arch[visits[i].path].info)}

\* C23: e.cleanups is empty when Extract begins, the first time and every time
\* after, and the cleanups Extract executes are those its own walk registered,
\* never one registered by an earlier call on the same Extractor.
C23_CleanupsPerCall ==
    /\ pc = "start" => cleanups = <<>>
    /\ pc = "done" => Len(ran) <= Cardinality(Registering)

(***************************************************************************)
(* Properties of File.Stat and File.Lstat (checked under SpecStat).        *)
(***************************************************************************)
\* the entry of the File is a symbolic link, and what its target is
IsLink(p) == arch[p].info.SymlinkTarget # <<>>
TargetOf(p) == arch[p].info.SymlinkTarget

\* C24: File.Stat of a symbolic link whose target is in the archive returns
\* the target's FileInfo, File.Lstat of a symbolic link returns the link's own,
\* and for an entry that is no symbolic link both return the entry's own.
C24_StatFollows ==
    /\ pc = "Lstat" => got = arch[file]
    /\ pc = "Stat" /\ ~IsLink(file) => got = arch[file]
    /\ pc = "Stat" /\ IsLink(file) /\ TargetOf(file) \in DOMAIN arch =>
           got = arch[TargetOf(file)]

(***************************************************************************)
(* Properties of squashtool's extract command (checked under SpecTool).    *)
(***************************************************************************)
\* C25: in squashtool's extract command a white-out entry is applied, so that
\* nothing is left at its path in the output directory, when --whiteouts is
\* set, and is passed over, the output directory staying as it was, when the
\* flag is not set; nothing outside the command fails.
C25_ToolWhiteOutFlag ==
    Called /\ NoFault =>
        /\ opts.WhiteOuts => Absent(tgt, EntryPath)
        /\ ~opts.WhiteOuts => tgt = before

(***************************************************************************)
(* Further properties of one call of e.extract (checked under SpecEntry).  *)
(***************************************************************************)
\* the calls at a call site of the engine, as indices into calls
CallsAt(site) == {k \in 1..Len(calls) : calls[k].site = site}
\* prepWrite's chmod that made the parent writable, and the chmod of setBack
Opened == {k \in CallsAt("chmodOpen") : calls[k].err = Nil}
SetBacks == CallsAt("chmodBack")
Parent == Dir(EntryPath)

\* C26: in a call that goes through prepWrite, setBack runs exactly once when
\* prepWrite made the parent writable and never otherwise; it runs after the
\* parent was opened and after every creating system call, on the parent, with
\* the mode the parent had; and when it succeeds the parent has that mode when
\* the call returns.
C26_CleanupOnce ==
    Called /\ Materialized =>
        /\ Cardinality(SetBacks) = Cardinality(Opened)
        /\ Cardinality(Opened) <= 1
        /\ \A k \in SetBacks :
             /\ \A j \in Opened \cup CreateCalls : j < k
             /\ calls[k].path = Parent /\ calls[k].mode = before[Parent].mode
             /\ calls[k].err = Nil => tgt[Parent].mode = before[Parent].mode
C26_Witness ==
    /\ Called /\ Materialized /\ Opened # {} /\ FailedCreate # {}
    /\ Cardinality(SetBacks) = 1 /\ tgt[Parent].mode = before[Parent].mode
    /\ ~HasOwnerW(before[Parent].mode)

\* the chown and the chmod of extract's last part, as indices into calls
Chowns == CallsAt("chown")
Chmods == CallsAt("chmod")
\* the entry is one extract returns nil for without materializing it: a
\* white-out, a socket without Sockets, a device without Devs
Skipped ==
    \/ getWhiteOut(EntryInfo)
    \/ "ModeSocket" \in EntryInfo.bits /\ ~opts.Sockets
    \/ DeviceEntry /\ ~opts.Devs
\* the call returned an error that is neither the chown's nor the chmod's: the
\* type-specific materialization returned it
MaterializationFailed ==
    Ret # Nil /\ \A k \in Chowns \cup Chmods : calls[k].err = Nil

\* C27: extract calls chown only with Owners and chmod only with Perms, on the
\* entry's path, after everything the type-specific materialization did and
\* only when that returned nil; for an entry whose materialization returned an
\* error, and for a skipped one, it calls neither and registers no cleanup;
\* chown comes before chmod, and chmod is not called when chown failed.
C27_OwnersPermsAfterSuccess ==
    Called =>
        /\ \A k \in Chowns : calls[k].path = EntryPath /\ opts.Owners
        /\ \A k \in Chmods : calls[k].path = EntryPath /\ opts.Perms
        /\ \A k \in Chowns \cup Chmods :
             \A j \in 1..Len(calls) : j \notin Chowns \cup Chmods => j < k
        /\ \A k \in Chowns : \A j \in Chmods : k < j /\ calls[k].err = Nil
        /\ Skipped \/ MaterializationFailed =>
               Chowns = {} /\ Chmods = {} /\ cleanups = <<>>
C27_Witness ==
    /\ Called /\ opts.Owners /\ opts.Perms /\ FailedCreate # {}
    /\ MaterializationFailed /\ Chowns = {} /\ Chmods = {}

\* the engine's state when the call began
PreState == [fs |-> before, cleanups |-> <<>>, calls |-> <<>>, hit |-> {}, seen |-> {}]
\* the parent was still not writable after prepWrite's chmod: unix.Access failed again
AccessDenied == \E k \in CallsOf("access") : calls[k].err # Nil
\* what prepWrite returns for the entry when that happens and nothing else fails
PrepDenied == prepWrite(Engine({"access"}), PreState, EntryPath, EntryInfo)

\* C28: when the parent is not writable and is still not writable after
\* prepWrite's chmod to the open mode, prepWrite sets the parent's mode back,
\* returns an error and a cleanup that does nothing, and leaves the target as
\* it found it; in the call nothing is created, and the chmod of setBack,
\* called once with the parent's mode, leaves the parent with that mode when
\* it succeeds.
C28_StillNotWritable ==
    Called /\ Materialized /\ AccessDenied =>
        /\ PrepDenied.err # Nil /\ PrepDenied.cleanup = NoCleanup
        /\ PrepDenied.s.fs = before
        /\ CreateCalls = {} /\ Cardinality(SetBacks) = 1
        /\ \A k \in SetBacks :
             /\ calls[k].path = Parent /\ calls[k].mode = before[Parent].mode
             /\ calls[k].err = Nil => tgt[Parent].mode = before[Parent].mode
        /\ \A q \in DOMAIN before : BelowEq(EntryPath, q) => q \in DOMAIN tgt
C28_Witness ==
    /\ Called /\ Materialized /\ AccessDenied /\ Was.t = "dir"
    /\ SubtreeAt(tgt, EntryPath) = SubtreeAt(before, EntryPath)
    /\ tgt[Parent].mode = before[Parent].mode /\ ~HasOwnerW(tgt[Parent].mode)
    /\ PrepDenied.err = "CannotMakeWritable"

\* what prepWrite returns for the entry when nothing outside the engine fails
Prep == prepWrite(Engine({}), PreState, EntryPath, EntryInfo)
\* prepWrite got as far as the target path: the parent is a directory the
\* process may write to, at once or after prepWrite's chmod
TargetReached == ~ParentUnusable /\ Access(Prep.s.fs, priv, Parent) = Nil
\* fs is old without the paths of gone; the parent's mode apart, which prepWrite
\* may have opened, every other path is as it was
Without(fs, old, gone) ==
    /\ DOMAIN fs = DOMAIN old \ gone
    /\ \A q \in DOMAIN fs : q # Parent => fs[q] = old[q]

\* C29: prepWrite looks at the target path itself, never at what a link there
\* points to: with nothing at the path it removes nothing; a symbolic link or
\* any other non-directory at the path is unlinked, and the file a link pointed
\* to stays as it was; a directory at the path goes with all below it when the
\* entry is not a directory, and stays with all below it when the entry is one.
C29_TargetReconciled ==
    Called /\ TargetReached =>
        /\ Prep.err = Nil
        /\ Was.t = "none" => Without(Prep.s.fs, before, {})
        /\ Was.t \notin {"none", "dir"} => Without(Prep.s.fs, before, {EntryPath})
        /\ Was.t = "dir" /\ ~DirEntry =>
             Without(Prep.s.fs, before, {EntryPath} \cup SubtreeAt(before, EntryPath))
        /\ Was.t = "dir" /\ DirEntry => Without(Prep.s.fs, before, {})
C29_Witness ==
    /\ Called /\ TargetReached /\ Was.t = "lnk" /\ Was.link = <<"f">>
    /\ EntryPath \notin DOMAIN Prep.s.fs /\ Prep.s.fs[<<"f">>] = before[<<"f">>]
    /\ Materialized /\ Ret = Nil /\ Is.t # "lnk" /\ tgt[<<"f">>] = before[<<"f">>]

\* the entry is a character device with device number 0
WhiteOutEntry == "ModeCharDevice" \in EntryInfo.bits /\ EntryInfo.Rdev = 0
\* what applyWhiteOut does to the target as the call found it
Applied == applyWhiteOut(Engine({}), PreState, EntryPath)
DeviceNodes == {"cdev", "bdev"}

\* C30: the call for a character-device entry with device number 0 never calls
\* mknod and leaves no device node, with Devs enabled or not; with WhiteOuts
\* enabled the target and the result are those of applyWhiteOut when nothing
\* outside the engine fails, with Devs disabled too; with WhiteOuts disabled
\* the call changes nothing and returns nil, with Devs enabled too.
C30_WhiteOutBeforeDevs ==
    Called /\ WhiteOutEntry =>
        /\ CallsOf("mknod") = {} /\ CreateCalls = {} /\ Is.t \notin DeviceNodes
        /\ opts.WhiteOuts /\ NoFault => tgt = Applied.s.fs /\ Ret = Applied.err
        /\ opts.WhiteOuts /\ Was.t \in {"reg", "dir"} /\ Ret = Nil =>
             Absent(tgt, EntryPath) /\ SubtreeAt(tgt, EntryPath) = {}
        /\ ~opts.WhiteOuts => Untouched
C30_Witness ==
    /\ Called /\ WhiteOutEntry /\ opts.WhiteOuts /\ ~opts.Devs
    /\ Was.t = "dir" /\ SubtreeAt(before, EntryPath) # {}
    /\ Ret = Nil /\ Absent(tgt, EntryPath) /\ SubtreeAt(tgt, EntryPath) = {}

\* the handles the call opened: the writer of os.OpenFile, the listener of net.Listen
Handles == {k \in CallsOf("open") \cup CallsOf("listen") : calls[k].err = Nil}
\* the handles the call has not closed since
StillOpen == {k \in Handles : ~\E c \in CallsOf("close") : c > k /\ calls[c].path = calls[k].path}

\* C31: when the call for an entry has returned, with an error or without, every
\* handle it opened (the target file's writer, the socket's listening endpoint)
\* has been closed.
C31_NoOpenHandle == pc = "visited" => StillOpen = {}

(***************************************************************************)
(* FakerootOps.Mknod called on its own, for an entry of every type and     *)
(* device numbers on both sides of a multiple of 256.                      *)
(***************************************************************************)
MknodDevnos == {0, 1, 255, 256, 258, 513, 70000}
MknodInodes ==
    {Inode(t, 420, d, 0, IF t \in {"SLINK", "EXT_SLINK"} THEN <<"f">> ELSE <<>>, 0) :
        t \in InodeTypes, d \in MknodDevnos}

InitMknod ==
    /\ pc = "mknod" /\ visitor = "any"
    /\ root = Root
    /\ stack = <<>> /\ visits = <<>> /\ result = Nil
    /\ \E ino \in MknodInodes :
         arch = (EntryPath :> [err |-> Nil, info |-> getFileInfo(EntryPath, ino)])
    /\ listing = <<>> /\ budget = 0
    /\ opts = NoOpts /\ priv \in BOOLEAN /\ tgt \in EntryTargets /\ before = tgt
    /\ cleanups = <<>> /\ ran = <<>> /\ calls = <<>> /\ faults = 0
    /\ cleanErr = Nil /\ ret = Nil /\ ops = "FakerootOps" /\ fakeroot = TRUE
    /\ run = 1 /\ file = Root /\ got = NoAnswer /\ cmd = <<>> /\ fp = NoFile

\* e.Ops.Mknod(EntryPath, info) of the FakerootOps
FakerootMknod ==
    /\ pc = "mknod"
    /\ LET r == OpsMknod(Engine({}), EngineState, "mknod", EntryPath,
                         arch[EntryPath].info) IN
         /\ tgt' = r.s.fs /\ calls' = r.s.calls /\ ret' = r.err
    /\ cmd' = MknodCmd(EntryPath, arch[EntryPath].info)
    /\ pc' = "made"
    /\ UNCHANGED <<visitor, root, walkVars, opts, priv, before, cleanups, faults, ran,
                   cleanErr, ops, fakeroot, run, file, got, fp>>

NextMknod == FakerootMknod
SpecMknod == InitMknod /\ [][NextMknod]_vars

\* C32: FakerootOps.Mknod runs mknod with major = d div 256 and minor = d mod 256
\* for a block or character device with number d, so that 256 * major + minor = d
\* and 0 <= minor < 256, and the node it makes has the number d; it runs mknod
\* without major and minor for a fifo; for every other entry it runs no command
\* and returns an error.
C32_MajorMinor ==
    pc = "made" =>
        /\ DeviceEntry =>
             /\ Len(cmd) = 6 /\ cmd[4] \in {"b", "c"}
             /\ cmd[5] = EntryInfo.Rdev \div 256 /\ cmd[6] = EntryInfo.Rdev % 256
             /\ (256 * cmd[5]) + cmd[6] = EntryInfo.Rdev /\ cmd[6] \in 0..255
             /\ ret = Nil => tgt[EntryPath].rdev = EntryInfo.Rdev
        /\ "ModeNamedPipe" \in EntryInfo.bits => Len(cmd) = 4 /\ cmd[4] = "p"
        /\ ~DeviceEntry /\ "ModeNamedPipe" \notin EntryInfo.bits =>
             cmd = <<>> /\ ret # Nil /\ tgt = before
C32_Witness ==
    /\ pc = "made" /\ EntryInfo.Rdev = 258 /\ "ModeDevice" \in EntryInfo.bits
    /\ cmd[5] = 1 /\ cmd[6] = 2 /\ ret = Nil /\ tgt[EntryPath].rdev = 258

(***************************************************************************)
(* Extract with FAKEROOTKEY set and no provider given, into an empty       *)
(* target.                                                                 *)
(***************************************************************************)
InitFakeroot ==
    /\ pc = "start" /\ visitor = "extract"
    /\ root = Root
    /\ stack = <<>> /\ visits = <<>> /\ result = Nil
    /\ arch = <<>> /\ listing = <<>> /\ budget = MaxExtracted
    /\ opts \in Options /\ priv \in BOOLEAN /\ tgt = EmptyTarget /\ before = tgt
    /\ cleanups = <<>> /\ ran = <<>> /\ calls = <<>> /\ faults = 0
    /\ cleanErr = Nil /\ ret = Nil /\ ops = "nil" /\ fakeroot = TRUE
    /\ run = 1 /\ file = Root /\ got = NoAnswer /\ cmd = <<>> /\ fp = NoFile

SpecFakeroot == InitFakeroot /\ [][Next]_vars

\* the chmod, chown and mknod calls of the provider so far
ProviderCalls == {k \in 1..Len(calls) : calls[k].op \in {"chmod", "chown", "mknod"}}

\* C33: with FAKEROOTKEY set and no provider given, Extract goes on with the
\* LibcFsOps, and every chmod, chown and mknod of the provider is a call of the
\* symbol resolved from the library, never a system call made directly.
C33_SymbolResolved ==
    fakeroot /\ pc \notin {"start", "done"} =>
        /\ ops = "LibcFsOps"
        /\ \A k \in ProviderCalls : Via(ops, calls[k].op) = "symbol"

\* the entry's mode has os.ModeSymlink set
SymlinkType == "ModeSymlink" \in EntryInfo.bits

\* C34: the entry of an inode has a symlink target exactly when its type is
\* symlink, so the call for every entry with a target, of a basic or an extended
\* symlink inode, goes to os.Symlink and to no other creating call, and the call
\* for no other entry does.
C34_TargetIffSymlink ==
    Called =>
        /\ SymlinkEntry <=> SymlinkType
        /\ SymlinkEntry => CreateCalls \subseteq CallsOf("symlink")
        /\ CallsOf("symlink") # {} => SymlinkEntry

\* C35: when Walk returned nil and one or more of the deferred cleanups failed,
\* Extract returns an error; it returns nil only when Walk returned nil and
\* every deferred cleanup returned nil.
C35_CleanupErrorReturned ==
    pc = "done" /\ run = 1 =>
        /\ result = Nil /\ FailedRepairs # {} => ret # Nil
        /\ ret = Nil => result = Nil /\ FailedRepairs = {}

\* C36: the loop over e.cleanups does not end at a cleanup that failed: when
\* Extract returns, every cleanup registered after one that failed has been
\* called as well.
C36_DrainGoesOn ==
    pc = "done" /\ run = 1 =>
        \A i \in FailedRepairs : \A j \in (i + 1)..Len(cleanups) :
            /\ j <= Len(ran) /\ ran[j].idx = j
            /\ ran[j].path = cleanups[j].path /\ ran[j].mode = cleanups[j].mode
C36_Witness ==
    /\ pc = "done" /\ run = 1 /\ Len(cleanups) = 2 /\ Len(ran) = 2
    /\ ran[1].err # Nil /\ ran[2].err = Nil /\ ran[2].path = cleanups[2].path

\* os.Symlink made the link, and the chown of the call returned nil
Linked == \E k \in CallsOf("symlink") : calls[k].err = Nil
Chowned == \E k \in CallsOf("chown") : calls[k].err = Nil

\* C38: with Owners enabled, the chown of the call that made the link of a
\* symbolic-link entry gives the link itself the owner the entry records, and the owner of every
\* other path, the one the link points to included, stays as it was.
C38_ChownOfLinkItself ==
    Called /\ opts.Owners /\ SymlinkType /\ Linked /\ Chowned =>
        /\ Is.t = "lnk" /\ Is.uid = EntryInfo.Uid
        /\ \A q \in DOMAIN tgt \ {EntryPath} :
             q \in DOMAIN before => tgt[q].uid = before[q].uid

(***************************************************************************)
(* File.Seek, called any number of times on an open File, with every       *)
(* offset of the integer width and every whence.                           *)
(***************************************************************************)
MinInt == -(2 ^ (OffsetBits - 1))
MaxInt == (2 ^ (OffsetBits - 1)) - 1
\* the sum of two integers of the width as the machine computes it
WrapInt(x) == ((x - MinInt) % (2 ^ OffsetBits)) + MinInt
\* io.SeekStart, io.SeekCurrent, io.SeekEnd, and any other value
Whences == {"SeekStart", "SeekCurrent", "SeekEnd", "other"}

\* Seek's switch on whence
SeekRef(f, whence) ==
    CASE whence = "SeekStart" -> 0
      [] whence = "SeekCurrent" -> f.Pos
      [] whence = "SeekEnd" -> f.Size
      [] OTHER -> 0

\* mutant: Seek without the test against the size
FileSeekNoEnd(f, offset, whence) ==
    With(WrapInt(SeekRef(f, whence) + offset), LAMBDA newPos :
      IF newPos < 0 THEN [f |-> f, ret |-> f.Pos, err |-> "SeekBeforeStart"]
      ELSE [f |-> [f EXCEPT !.Pos = newPos], ret |-> newPos, err |-> Nil])
\* File.Seek: [f, ret, err]
FileSeek(f, offset, whence) ==
    With(WrapInt(SeekRef(f, whence) + offset), LAMBDA newPos :
      IF newPos < 0 THEN [f |-> f, ret |-> f.Pos, err |-> "SeekBeforeStart"]
      ELSE IF newPos > f.Size THEN [f |-> f, ret |-> f.Pos, err |-> "SeekPastEnd"]
      ELSE [f |-> [f EXCEPT !.Pos = newPos], ret |-> newPos, err |-> Nil])

InitSeek ==
    /\ pc = "opened" /\ visitor = "any"
    /\ root = Root
    /\ stack = <<>> /\ visits = <<>> /\ result = Nil
    /\ arch = <<>> /\ listing = <<>> /\ budget = 0
    /\ opts = NoOpts /\ priv = FALSE /\ tgt = EmptyTarget /\ before = tgt
    /\ cleanups = <<>> /\ ran = <<>> /\ calls = <<>> /\ faults = 0
    /\ cleanErr = Nil /\ ret = Nil /\ ops = "nil" /\ fakeroot = FALSE
    /\ run = 1 /\ file = Root /\ got = NoAnswer /\ cmd = <<>>
    /\ \E size \in 0..MaxSize : fp = [Pos |-> 0, Size |-> size]

\* f.Seek(offset, whence)
CallSeek ==
    /\ pc \in {"opened", "Seek"}
    /\ \E offset \in MinInt..MaxInt, whence \in Whences :
         LET r == FileSeek(fp, offset, whence) IN
         /\ fp' = r.f
         /\ got' = [err |-> r.err, ret |-> r.ret, offset |-> offset, whence |-> whence,
                    pos |-> fp.Pos]
    /\ pc' = "Seek"
    /\ UNCHANGED <<visitor, root, walkVars, opts, priv, before, engineVars, ran,
                   cleanErr, ret, ops, fakeroot, run, file, cmd>>

NextSeek == CallSeek
SpecSeek == InitSeek /\ [][NextSeek]_vars

\* the position the last Seek asked for, as a number: reference + offset
Wanted ==
    got.offset + (CASE got.whence = "SeekStart" -> 0
                    [] got.whence = "SeekCurrent" -> got.pos
                    [] got.whence = "SeekEnd" -> fp.Size
                    [] OTHER -> 0)

\* C39: after every sequence of Seek calls 0 <= Pos <= Size; a Seek to a
\* position below 0 or above the size returns an error and leaves Pos as it
\* was; every other Seek returns nil and the new Pos, which is the reference
\* (0, the Pos before, or the size, by whence) plus the offset.
C39_SeekInRange ==
    /\ pc \in {"opened", "Seek"} => 0 <= fp.Pos /\ fp.Pos <= fp.Size
    /\ pc = "Seek" /\ got.whence # "other" =>
         IF Wanted < 0 \/ Wanted > fp.Size
         THEN got.err # Nil /\ fp.Pos = got.pos
         ELSE got.err = Nil /\ fp.Pos = Wanted /\ got.ret = Wanted
C39_Witness ==
    /\ pc = "Seek" /\ got.whence = "SeekEnd" /\ got.offset < 0 /\ got.pos > 0
    /\ got.err = Nil /\ fp.Pos = fp.Size + got.offset /\ fp.Pos # got.pos

====
